----------------------------- MODULE SeatProofs ------------------------------
(***************************************************************************)
(* What is proved of the seats of agents (SeatRuntime) for every set of    *)
(* seats and every bound: a rotation of a credential in progress has its   *)
(* launch, the runtime of a seat holds the credential the registry has for *)
(* it, a retired seat comes back only by a restore, and a relaunch resumes *)
(* the conversation of its seat.  The invariant has three layers: SeatBase *)
(* (tables, the memory of the handlers, and how they refer to each other), *)
(* SeatAuth (which credential a pane can have) and, as long as nothing has *)
(* failed or crashed, Threads (which conversation a pane can have).        *)
(***************************************************************************)
EXTENDS SeatRuntime, FiniteSetTheorems, SequenceTheorems, WellFoundedInduction, TLAPS

LaunchSet == [kind : {"create", "restore", "recredential"}, seat : Seats,
              status : {"launching", "applied", "failed"}, cred : Nat, thread : Nat, rot : Nat,
              brief : BOOLEAN]

RotSet == [seat : Seats, status : {"waiting_idle", "relaunching", "applied", "failed"},
           launch : Nat, thread : Nat]

SeatSet == [there : BOOLEAN, status : {"stopped", "idle", "running"}, retired : BOOLEAN,
            cred : Nat, thread : Nat, proof : BOOLEAN]

MakerSet == [pc : {"none", "start", "wait", "failed", "commit"}, l : Nat, th : Nat]

ClearerSet == [pc : {"none", "rebind", "type", "commit", "bind"}, l : Nat, th : Nat]

WorkerSet == [pc : {"none", "look", "exit", "recover", "final", "missing", "fence", "busy"},
              l : Nat, th : Nat]

HeldSet == [op : {"none", "restore", "rotate", "recover", "retire"}, l : Nat \cup Seats,
            pc : {"none", "kill", "start", "verify", "check", "wait", "commit"}]

\* The registry, and what the handlers remember
TablesTyped ==
  /\ seat \in [Seats -> SeatSet] /\ launch \in Seq(LaunchSet) /\ rot \in Seq(RotSet)

MemoryTyped ==
  /\ held \in HeldSet /\ serving \in BOOLEAN /\ asker \in [Seats -> BOOLEAN]
  /\ maker \in [Seats -> MakerSet] /\ clearer \in [Seats -> ClearerSet]
  /\ worker \in [Seats -> WorkerSet]

HostTyped ==
  /\ prov \in [Seats -> Providers] /\ pane \in [Seats -> Nat] /\ conv \in [Seats -> Nat]
  /\ creds \in Nat /\ threads \in Nat /\ seatCrashes \in Nat /\ seatFaults \in Nat

LEMMA SeatLeast ==
  ASSUME NEW S, S \subseteq Nat, S # {}
  PROVE  Min(S) \in S
<1> DEFINE R == OpToRel(<, Nat)
<1>1. IsWellFoundedOn(R, Nat)
  BY NatLessThanWellFounded
<1>2. \A x, y \in Nat : x < y => <<x, y>> \in R
  BY DEF OpToRel
<1> HIDE DEF R
<1>3. PICK x \in S : \A y \in S : ~(<<y, x>> \in R)
  BY <1>1, WFMin
<1>4. ASSUME NEW y \in S PROVE x <= y
  <2>1. x \in Nat /\ y \in Nat
    OBVIOUS
  <2>2. ~(y < x)
    BY <2>1, <1>2, <1>3
  <2> QED
    BY <2>1, <2>2
<1> QED
  BY <1>3, <1>4 DEF Min

LEMMA SeatRows ==
  ASSUME NEW S, NEW q \in Seq(S), NEW f \in [DOMAIN q -> S]
  PROVE  f \in Seq(S) /\ DOMAIN f = DOMAIN q /\ Len(f) = Len(q)
<1>1. DOMAIN q = 1 .. Len(q) /\ Len(q) \in Nat
  BY LenProperties
<1>2. f \in Seq(S)
  BY <1>1
<1> QED
  BY <1>1, <1>2, LenProperties

\* What no step takes back: a row keeps what it is about.
LaunchKept(q, p) ==
  /\ DOMAIN q \subseteq DOMAIN p
  /\ \A i \in DOMAIN q :
       p[i].kind = q[i].kind /\ p[i].seat = q[i].seat /\ p[i].rot = q[i].rot
       /\ p[i].thread = q[i].thread

RotKept(q, p) ==
  /\ DOMAIN q \subseteq DOMAIN p
  /\ \A r \in DOMAIN q : p[r].seat = q[r].seat /\ p[r].thread = q[r].thread

LEMMA SeatFields ==
  ASSUME NEW x \in SeatSet
  PROVE  /\ \A c \in Nat : [x EXCEPT !.cred = c] \in SeatSet /\ [x EXCEPT !.thread = c] \in SeatSet
         /\ \A st \in {"stopped", "idle", "running"} : [x EXCEPT !.status = st] \in SeatSet
         /\ \A b \in BOOLEAN : [x EXCEPT !.retired = b] \in SeatSet /\ [x EXCEPT !.proof = b] \in SeatSet
  BY DEF SeatSet

LEMMA SeatFinalRot ==
  ASSUME TablesTyped, NEW s \in Seats
  PROVE  /\ FinalRot(s) \in Seq(RotSet) /\ DOMAIN FinalRot(s) = DOMAIN rot
         /\ \A r \in DOMAIN rot :
              /\ FinalRot(s)[r].seat = rot[r].seat /\ FinalRot(s)[r].thread = rot[r].thread
              /\ FinalRot(s)[r].launch = rot[r].launch
              /\ FinalRot(s)[r].status = IF rot[r].seat = s /\ rot[r].status \in ActiveRotation
                                         THEN "failed" ELSE rot[r].status
<1>1. \A r \in DOMAIN rot : rot[r] \in RotSet
  BY ElementOfSeq, LenProperties DEF TablesTyped
<1>2. ASSUME NEW r \in DOMAIN rot
      PROVE  /\ FinalRot(s)[r] = IF rot[r].seat = s /\ rot[r].status \in ActiveRotation
                                 THEN [rot[r] EXCEPT !.status = "failed"] ELSE rot[r]
             /\ FinalRot(s)[r] \in RotSet
  <2>1. FinalRot(s)[r] = IF rot[r].seat = s /\ rot[r].status \in ActiveRotation
                                 THEN [rot[r] EXCEPT !.status = "failed"] ELSE rot[r]
    BY DEF FinalRot, ActiveOf
  <2> QED
    BY <1>1, <2>1 DEF RotSet
<1>3. FinalRot(s) \in [DOMAIN rot -> RotSet]
  BY <1>2 DEF FinalRot
<1>4. FinalRot(s) \in Seq(RotSet) /\ DOMAIN FinalRot(s) = DOMAIN rot
  BY <1>3, SeatRows DEF TablesTyped
<1> QED
  BY <1>1, <1>2, <1>4 DEF RotSet

LEMMA SeatLaunchStatus ==
  ASSUME NEW x \in LaunchSet, NEW st \in {"launching", "applied", "failed"}
  PROVE  /\ [x EXCEPT !.status = st] \in LaunchSet
         /\ [x EXCEPT !.status = st].kind = x.kind /\ [x EXCEPT !.status = st].seat = x.seat
         /\ [x EXCEPT !.status = st].rot = x.rot /\ [x EXCEPT !.status = st].thread = x.thread
         /\ [x EXCEPT !.status = st].cred = x.cred /\ [x EXCEPT !.status = st].status = st
  BY DEF LaunchSet

LEMMA SeatFinalLaunch ==
  ASSUME TablesTyped, NEW s \in Seats
  PROVE  /\ FinalLaunch(s) \in Seq(LaunchSet) /\ DOMAIN FinalLaunch(s) = DOMAIN launch
         /\ \A i \in DOMAIN launch :
              /\ FinalLaunch(s)[i].kind = launch[i].kind /\ FinalLaunch(s)[i].seat = launch[i].seat
              /\ FinalLaunch(s)[i].rot = launch[i].rot /\ FinalLaunch(s)[i].thread = launch[i].thread
              /\ FinalLaunch(s)[i].cred = launch[i].cred
              /\ FinalLaunch(s)[i].status = IF launch[i].rot \in ActiveOf(s)
                                               /\ launch[i].status = "launching"
                                            THEN "failed" ELSE launch[i].status
<1>1. \A i \in DOMAIN launch : launch[i] \in LaunchSet
  BY ElementOfSeq, LenProperties DEF TablesTyped
<1>2. ASSUME NEW i \in DOMAIN launch
      PROVE  /\ FinalLaunch(s)[i] = IF launch[i].rot \in ActiveOf(s) /\ launch[i].status = "launching"
                                    THEN [launch[i] EXCEPT !.status = "failed"] ELSE launch[i]
             /\ FinalLaunch(s)[i] \in LaunchSet
  <2>1. FinalLaunch(s)[i] = IF launch[i].rot \in ActiveOf(s) /\ launch[i].status = "launching"
                                    THEN [launch[i] EXCEPT !.status = "failed"] ELSE launch[i]
    BY DEF FinalLaunch
  <2> QED
    BY <1>1, <2>1 DEF LaunchSet
<1>3. FinalLaunch(s) \in [DOMAIN launch -> LaunchSet]
  BY <1>2 DEF FinalLaunch
<1>4. FinalLaunch(s) \in Seq(LaunchSet) /\ DOMAIN FinalLaunch(s) = DOMAIN launch
  BY <1>3, SeatRows DEF TablesTyped
<1> QED
  BY <1>1, <1>2, <1>4 DEF LaunchSet

-----------------------------------------------------------------------------
(* The tables *)

\* Launches and rotations of a registry belong together, and a seat has one active rotation.
BackedBy(q, p) ==
  /\ \A i \in DOMAIN q : q[i].kind # "recredential" => q[i].rot = 0
  /\ \A i \in DOMAIN q : q[i].kind = "recredential" =>
       q[i].rot \in DOMAIN p /\ p[q[i].rot].seat = q[i].seat
  /\ \A r \in DOMAIN p : p[r].status = "relaunching" =>
       p[r].launch \in DOMAIN q /\ q[p[r].launch].status = "launching" /\ q[p[r].launch].rot = r
  /\ \A i \in DOMAIN q : q[i].kind = "recredential" /\ q[i].status = "launching" =>
       p[q[i].rot].status = "relaunching" /\ p[q[i].rot].launch = i
  /\ \A r1, r2 \in DOMAIN p :
       p[r1].seat = p[r2].seat /\ p[r1].status \in ActiveRotation /\ p[r2].status \in ActiveRotation
         => r1 = r2

Backing == BackedBy(launch, rot)

TablesMove ==
  TablesTyped' /\ Backing' /\ LaunchKept(launch, launch') /\ RotKept(rot, rot')

LEMMA SeatRowTypes ==
  ASSUME TablesTyped
  PROVE  /\ \A i \in DOMAIN launch : launch[i] \in LaunchSet
         /\ \A r \in DOMAIN rot : rot[r] \in RotSet
         /\ DOMAIN launch = 1 .. Len(launch) /\ DOMAIN rot = 1 .. Len(rot)
         /\ Len(launch) \in Nat /\ Len(rot) \in Nat
         /\ 0 \notin DOMAIN rot
<1>1. DOMAIN launch = 1 .. Len(launch) /\ DOMAIN rot = 1 .. Len(rot)
      /\ Len(launch) \in Nat /\ Len(rot) \in Nat
  BY LenProperties DEF TablesTyped
<1> QED
  BY <1>1, ElementOfSeq DEF TablesTyped

\* The rotations of a seat end, with the launches of theirs; so may other launches of the seat, and
\* launches that belong to no rotation.
LEMMA SeatEndsBacking ==
  ASSUME TablesTyped, Backing, NEW s \in Seats, NEW q, NEW X,
         DOMAIN q = DOMAIN launch,
         \A i \in X : i \in DOMAIN launch =>
            launch[i].kind # "recredential" \/ launch[i].seat = s,
         \A i \in DOMAIN launch :
            /\ q[i].kind = launch[i].kind /\ q[i].seat = launch[i].seat
            /\ q[i].rot = launch[i].rot
            /\ q[i].status = IF i \in X \/ (launch[i].rot \in ActiveOf(s)
                                            /\ launch[i].status = "launching")
                             THEN "failed" ELSE launch[i].status
  PROVE  BackedBy(q, FinalRot(s))
<1> DEFINE p == FinalRot(s)
<1>1. /\ DOMAIN p = DOMAIN rot
      /\ \A r \in DOMAIN rot :
              /\ p[r].seat = rot[r].seat /\ p[r].launch = rot[r].launch
              /\ p[r].status = IF rot[r].seat = s /\ rot[r].status \in ActiveRotation
                                         THEN "failed" ELSE rot[r].status
  BY SeatFinalRot
<1> HIDE DEF p
<1>2. \A r \in DOMAIN rot : r \in ActiveOf(s) <=> rot[r].seat = s /\ rot[r].status \in ActiveRotation
  BY DEF ActiveOf
<1>3. 0 \notin DOMAIN rot /\ ActiveOf(s) \subseteq DOMAIN rot
  BY SeatRowTypes DEF ActiveOf
<1>a. "relaunching" \in ActiveRotation /\ "failed" \notin ActiveRotation
  BY DEF ActiveRotation
<1>4. \A i \in DOMAIN q : q[i].kind # "recredential" => q[i].rot = 0
  BY DEF Backing, BackedBy
<1>5. \A i \in DOMAIN q : q[i].kind = "recredential" =>
       q[i].rot \in DOMAIN p /\ p[q[i].rot].seat = q[i].seat
  BY <1>1 DEF Backing, BackedBy
<1>6. ASSUME NEW r \in DOMAIN p, p[r].status = "relaunching"
      PROVE  p[r].launch \in DOMAIN q /\ q[p[r].launch].status = "launching" /\ q[p[r].launch].rot = r
  <2>1. rot[r].status = "relaunching" /\ rot[r].seat # s
    BY <1>1, <1>6, <1>a
  <2>2. /\ rot[r].launch \in DOMAIN launch /\ launch[rot[r].launch].status = "launching"
        /\ launch[rot[r].launch].rot = r
    BY <1>1, <2>1 DEF Backing, BackedBy
  <2>3. launch[rot[r].launch].kind = "recredential"
    BY <1>1, <1>3, <2>2 DEF Backing, BackedBy
  <2>4. launch[rot[r].launch].seat # s
    BY <2>1, <2>2, <2>3 DEF Backing, BackedBy
  <2>5. rot[r].launch \notin X
    BY <2>2, <2>3, <2>4
  <2>6. r \notin ActiveOf(s)
    BY <1>1, <1>2, <2>1
  <2> QED
    BY <1>1, <2>2, <2>5, <2>6
<1>7. ASSUME NEW i \in DOMAIN q, q[i].kind = "recredential", q[i].status = "launching"
      PROVE  p[q[i].rot].status = "relaunching" /\ p[q[i].rot].launch = i
  <2>1. /\ launch[i].kind = "recredential" /\ launch[i].status = "launching"
        /\ launch[i].rot \notin ActiveOf(s)
    BY <1>7
  <2>2. /\ launch[i].rot \in DOMAIN rot
        /\ rot[launch[i].rot].status = "relaunching" /\ rot[launch[i].rot].launch = i
    BY <2>1 DEF Backing, BackedBy
  <2> QED
    BY <1>1, <1>2, <2>1, <2>2, <1>a
<1>8. ASSUME NEW r1 \in DOMAIN p, NEW r2 \in DOMAIN p, p[r1].seat = p[r2].seat,
             p[r1].status \in ActiveRotation, p[r2].status \in ActiveRotation
      PROVE  r1 = r2
  BY <1>1, <1>8, <1>a DEF Backing, BackedBy
<1>9. BackedBy(q, p)
  BY <1>4, <1>5, <1>6, <1>7, <1>8 DEF BackedBy
<1> QED
  BY <1>9 DEF p

LEMMA SeatFinal ==
  ASSUME TablesTyped, Backing, NEW s \in Seats,
         rot' = FinalRot(s), launch' = FinalLaunch(s), seat' \in [Seats -> SeatSet]
  PROVE  TablesMove
<1>1. TablesTyped'
  BY SeatFinalRot, SeatFinalLaunch DEF TablesTyped
<1>2. Backing'
  <2>1. BackedBy(FinalLaunch(s), FinalRot(s))
    <3> DEFINE q == FinalLaunch(s)
               X == {}
    <3>1. \A i \in DOMAIN launch :
            /\ q[i].kind = launch[i].kind /\ q[i].seat = launch[i].seat
            /\ q[i].rot = launch[i].rot
            /\ q[i].status = IF i \in X \/ (launch[i].rot \in ActiveOf(s)
                                            /\ launch[i].status = "launching")
                             THEN "failed" ELSE launch[i].status
      BY SeatFinalLaunch
    <3>2. DOMAIN q = DOMAIN launch
      BY SeatFinalLaunch
    <3>3. \A i \in X : i \in DOMAIN launch => launch[i].kind # "recredential" \/ launch[i].seat = s
      OBVIOUS
    <3> HIDE DEF q, X
    <3>4. BackedBy(q, FinalRot(s))
      BY <3>1, <3>2, <3>3, SeatEndsBacking
    <3> QED
      BY <3>4 DEF q
  <2> QED
    BY <2>1 DEF Backing
<1>3. LaunchKept(launch, launch') /\ RotKept(rot, rot')
  BY SeatFinalRot, SeatFinalLaunch DEF LaunchKept, RotKept
<1> QED
  BY <1>1, <1>2, <1>3 DEF TablesMove

LEMMA SeatFails ==
  ASSUME TablesTyped, Backing, NEW l \in DOMAIN launch, NEW remove \in BOOLEAN,
         remove => launch[l].kind # "recredential", MarkFailed(l, remove)
  PROVE  TablesMove
<1> DEFINE s == launch[l].seat
           q == IF remove THEN launch ELSE FinalLaunch(s)
<1>0. /\ \A i \in DOMAIN launch : launch[i] \in LaunchSet
      /\ s \in Seats
  BY SeatRowTypes DEF LaunchSet
<1>1. /\ q \in Seq(LaunchSet) /\ DOMAIN q = DOMAIN launch
      /\ \A i \in DOMAIN launch :
           /\ q[i] \in LaunchSet
           /\ q[i].kind = launch[i].kind /\ q[i].seat = launch[i].seat
           /\ q[i].rot = launch[i].rot /\ q[i].thread = launch[i].thread
           /\ q[i].status = IF ~remove /\ launch[i].rot \in ActiveOf(s)
                                               /\ launch[i].status = "launching"
                                            THEN "failed" ELSE launch[i].status
  <2>1. CASE remove
    BY <1>0, <2>1 DEF TablesTyped
  <2>2. CASE ~remove
    <3>1. q = FinalLaunch(s)
      BY <2>2
    <3>2. q \in Seq(LaunchSet) /\ DOMAIN q = DOMAIN launch
      BY <1>0, <3>1, SeatFinalLaunch
    <3>3. \A i \in DOMAIN launch : q[i] \in LaunchSet
      BY <3>2, ElementOfSeq, LenProperties
    <3> QED
      BY <1>0, <2>2, <3>1, <3>2, <3>3, SeatFinalLaunch
  <2> QED
    BY <2>1, <2>2
<1> DEFINE z == [q EXCEPT ![l].status = "failed"]
<1>2. launch' = z
  BY DEF MarkFailed
<1>3. /\ DOMAIN z = DOMAIN launch
      /\ \A i \in DOMAIN launch :
           /\ z[i] \in LaunchSet
           /\ z[i].kind = launch[i].kind /\ z[i].seat = launch[i].seat
           /\ z[i].rot = launch[i].rot /\ z[i].thread = launch[i].thread
           /\ z[i].status = IF i = l THEN "failed" ELSE q[i].status
  <2> HIDE DEF q, s
  <2>1. DOMAIN z = DOMAIN launch
    BY <1>1
  <2>2. ASSUME NEW i \in DOMAIN launch
        PROVE  z[i] = IF i = l THEN [q[i] EXCEPT !.status = "failed"] ELSE q[i]
    BY <1>1
  <2> HIDE DEF z
  <2>3. ASSUME NEW i \in DOMAIN launch
        PROVE  /\ z[i] \in LaunchSet
               /\ z[i].kind = q[i].kind /\ z[i].seat = q[i].seat
               /\ z[i].rot = q[i].rot /\ z[i].thread = q[i].thread
               /\ z[i].status = IF i = l THEN "failed" ELSE q[i].status
    <3>1. q[i] \in LaunchSet
      BY <1>1
    <3>2. CASE i = l
      <4>1. z[i] = [q[i] EXCEPT !.status = "failed"]
        BY <2>2, <3>2
      <4>2. PICK x \in LaunchSet : x = q[i]
        BY <3>1
      <4>3. "failed" \in {"launching", "applied", "failed"}
        OBVIOUS
      <4>4. /\ [x EXCEPT !.status = "failed"] \in LaunchSet
            /\ [x EXCEPT !.status = "failed"].kind = x.kind
            /\ [x EXCEPT !.status = "failed"].seat = x.seat
            /\ [x EXCEPT !.status = "failed"].rot = x.rot
            /\ [x EXCEPT !.status = "failed"].thread = x.thread
            /\ [x EXCEPT !.status = "failed"].status = "failed"
        BY <4>3, SeatLaunchStatus
      <4> QED
        BY <3>2, <4>1, <4>2, <4>4
    <3>3. CASE i # l
      BY <2>2, <3>1, <3>3
    <3> QED
      BY <3>2, <3>3
  <2> QED
    BY <1>1, <2>1, <2>3
<1>4a. z \in [DOMAIN launch -> LaunchSet]
  BY <1>1, <1>3
<1> HIDE DEF q, z
<1>4. z \in Seq(LaunchSet)
  BY <1>4a, SeatRows DEF TablesTyped
<1>5. seat' \in [Seats -> SeatSet]
  BY <1>0 DEF MarkFailed, TablesTyped, SeatSet, NoSeat
<1>6. LaunchKept(launch, launch')
  BY <1>2, <1>3 DEF LaunchKept
<1>7. CASE remove
  <2>1. rot' = rot
    BY <1>7 DEF MarkFailed
  <2>2. BackedBy(z, rot)
    <3>1. \A i \in DOMAIN launch : z[i].status = IF i = l THEN "failed" ELSE launch[i].status
      BY <1>1, <1>3, <1>7
    <3>2. ASSUME NEW r \in DOMAIN rot, rot[r].status = "relaunching"
          PROVE  rot[r].launch \in DOMAIN z /\ z[rot[r].launch].status = "launching"
                 /\ z[rot[r].launch].rot = r
      <4>1. /\ rot[r].launch \in DOMAIN launch /\ launch[rot[r].launch].status = "launching"
            /\ launch[rot[r].launch].rot = r
        BY <3>2 DEF Backing, BackedBy
      <4>2. r # 0
        BY SeatRowTypes
      <4>3. rot[r].launch # l
        BY <4>1, <4>2, <1>7 DEF Backing, BackedBy
      <4> QED
        BY <1>3, <3>1, <4>1, <4>3
    <3>3. /\ \A i \in DOMAIN z : z[i].kind # "recredential" => z[i].rot = 0
          /\ \A i \in DOMAIN z : z[i].kind = "recredential" =>
               z[i].rot \in DOMAIN rot /\ rot[z[i].rot].seat = z[i].seat
      BY <1>3 DEF Backing, BackedBy
    <3>4. \A i \in DOMAIN z : z[i].kind = "recredential" /\ z[i].status = "launching" =>
            rot[z[i].rot].status = "relaunching" /\ rot[z[i].rot].launch = i
      BY <1>3, <3>1 DEF Backing, BackedBy
    <3> QED
      BY <3>2, <3>3, <3>4 DEF Backing, BackedBy
  <2> QED
    BY <1>2, <1>4, <1>5, <1>6, <2>1, <2>2 DEF TablesMove, TablesTyped, Backing, RotKept
<1>8. CASE ~remove
  <2>1. rot' = FinalRot(s)
    BY <1>8 DEF MarkFailed
  <2>2. BackedBy(z, FinalRot(s))
    <3>1. \A i \in DOMAIN launch :
            z[i].status = IF i \in {l} \/ (launch[i].rot \in ActiveOf(s)
                                            /\ launch[i].status = "launching")
                             THEN "failed" ELSE launch[i].status
      BY <1>1, <1>3, <1>8
    <3>2. \A i \in {l} : i \in DOMAIN launch => launch[i].kind # "recredential" \/ launch[i].seat = s
      OBVIOUS
    <3> HIDE DEF s
    <3> QED
      BY <1>0, <1>3, <3>1, <3>2, SeatEndsBacking
  <2>3. RotKept(rot, rot') /\ rot' \in Seq(RotSet)
    BY <1>0, <2>1, SeatFinalRot DEF RotKept
  <2> QED
    BY <1>2, <1>4, <1>5, <1>6, <2>1, <2>2, <2>3 DEF TablesMove, TablesTyped, Backing
<1> QED
  BY <1>7, <1>8

\* One launch row changes.
LEMMA SeatRowWritten ==
  ASSUME TablesTyped, NEW l \in DOMAIN launch, NEW y \in LaunchSet,
         y.kind = launch[l].kind, y.seat = launch[l].seat, y.rot = launch[l].rot,
         y.thread = launch[l].thread, NEW q, q = [launch EXCEPT ![l] = y]
  PROVE  /\ q \in Seq(LaunchSet) /\ DOMAIN q = DOMAIN launch /\ LaunchKept(launch, q)
         /\ \A i \in DOMAIN launch : q[i] = IF i = l THEN y ELSE launch[i]
<1>1. \A i \in DOMAIN launch : launch[i] \in LaunchSet
  BY SeatRowTypes
<1>2. DOMAIN q = DOMAIN launch /\ \A i \in DOMAIN launch : q[i] = IF i = l THEN y ELSE launch[i]
  OBVIOUS
<1>3. q \in [DOMAIN launch -> LaunchSet]
  BY <1>1, <1>2
<1>4. q \in Seq(LaunchSet)
  BY <1>3, SeatRows DEF TablesTyped
<1>5. LaunchKept(launch, q)
  BY <1>2 DEF LaunchKept
<1> QED
  BY <1>2, <1>4, <1>5

LEMMA SeatApplies ==
  ASSUME TablesTyped, Backing, NEW l \in DOMAIN launch,
         launch[l].kind = "recredential" => launch[l].status = "launching",
         MarkApplied(l), seat' \in [Seats -> SeatSet]
  PROVE  /\ TablesMove
         /\ \A r \in DOMAIN rot : rot'[r].status = IF r = launch[l].rot THEN "applied" ELSE rot[r].status
<1> DEFINE y == [launch[l] EXCEPT !.status = "applied"]
<1>0. PICK x \in LaunchSet : x = launch[l]
  BY SeatRowTypes
<1>1. /\ y \in LaunchSet /\ y.kind = launch[l].kind /\ y.seat = launch[l].seat
      /\ y.rot = launch[l].rot /\ y.thread = launch[l].thread /\ y.status = "applied"
  <2>1. "applied" \in {"launching", "applied", "failed"}
    OBVIOUS
  <2> QED
    BY <1>0, <2>1, SeatLaunchStatus
<1>2. launch' = [launch EXCEPT ![l] = y]
  BY DEF MarkApplied
<1> HIDE DEF y
<1>3. /\ launch' \in Seq(LaunchSet) /\ DOMAIN launch' = DOMAIN launch /\ LaunchKept(launch, launch')
      /\ \A i \in DOMAIN launch : launch'[i] = IF i = l THEN y ELSE launch[i]
  BY <1>1, <1>2, SeatRowWritten
<1>4. /\ rot' \in Seq(RotSet) /\ DOMAIN rot' = DOMAIN rot
      /\ \A r \in DOMAIN rot :
           /\ rot'[r].seat = rot[r].seat /\ rot'[r].thread = rot[r].thread
           /\ rot'[r].launch = rot[r].launch
           /\ rot'[r].status = IF r = launch[l].rot THEN "applied" ELSE rot[r].status
  <2>1. \A r \in DOMAIN rot : rot[r] \in RotSet
    BY SeatRowTypes
  <2>2. DOMAIN rot' = DOMAIN rot /\ \A r \in DOMAIN rot :
          rot'[r] = IF r = launch[l].rot THEN [rot[r] EXCEPT !.status = "applied"] ELSE rot[r]
    BY DEF MarkApplied
  <2>3. \A r \in DOMAIN rot : rot'[r] \in RotSet
    BY <2>1, <2>2 DEF RotSet
  <2>4. rot' \in [DOMAIN rot -> RotSet]
    BY <2>3 DEF MarkApplied
  <2> QED
    BY <2>1, <2>2, <2>4, SeatRows DEF TablesTyped, RotSet
<1>5. 0 \notin DOMAIN rot
  BY SeatRowTypes
<1>6. ASSUME NEW r \in DOMAIN rot, rot'[r].status = "relaunching"
      PROVE  /\ rot'[r].launch \in DOMAIN launch' /\ launch'[rot'[r].launch].status = "launching"
             /\ launch'[rot'[r].launch].rot = r
  <2>1. rot[r].status = "relaunching" /\ r # launch[l].rot
    BY <1>4, <1>6
  <2>2. /\ rot[r].launch \in DOMAIN launch /\ launch[rot[r].launch].status = "launching"
        /\ launch[rot[r].launch].rot = r
    BY <2>1 DEF Backing, BackedBy
  <2> QED
    BY <1>3, <1>4, <2>1, <2>2
<1>7. ASSUME NEW i \in DOMAIN launch, launch'[i].kind = "recredential", launch'[i].status = "launching"
      PROVE  rot'[launch'[i].rot].status = "relaunching" /\ rot'[launch'[i].rot].launch = i
  <2>1. i # l
    BY <1>1, <1>3, <1>7
  <2>2. launch'[i] = launch[i]
    BY <1>3, <2>1
  <2>3. /\ launch[i].rot \in DOMAIN rot /\ rot[launch[i].rot].status = "relaunching"
        /\ rot[launch[i].rot].launch = i
    BY <1>7, <2>2 DEF Backing, BackedBy
  <2>4. launch[i].rot # launch[l].rot
    <3>1. CASE launch[l].kind = "recredential"
      BY <2>1, <2>3, <3>1 DEF Backing, BackedBy
    <3>2. CASE launch[l].kind # "recredential"
      BY <2>3, <1>5, <3>2 DEF Backing, BackedBy
    <3> QED
      BY <3>1, <3>2
  <2> QED
    BY <1>4, <2>2, <2>3, <2>4
<1>8. BackedBy(launch', rot')
  <2>1. /\ \A i \in DOMAIN launch' : launch'[i].kind # "recredential" => launch'[i].rot = 0
        /\ \A i \in DOMAIN launch' : launch'[i].kind = "recredential" =>
             launch'[i].rot \in DOMAIN rot' /\ rot'[launch'[i].rot].seat = launch'[i].seat
    <3>1. \A i \in DOMAIN launch :
            /\ launch'[i].kind = launch[i].kind /\ launch'[i].seat = launch[i].seat
            /\ launch'[i].rot = launch[i].rot
      BY <1>1, <1>3
    <3>2. \A i \in DOMAIN launch : launch'[i].kind # "recredential" => launch'[i].rot = 0
      BY <3>1 DEF Backing, BackedBy
    <3>3. ASSUME NEW i \in DOMAIN launch, launch'[i].kind = "recredential"
          PROVE  launch'[i].rot \in DOMAIN rot' /\ rot'[launch'[i].rot].seat = launch'[i].seat
      <4>1. launch[i].rot \in DOMAIN rot /\ rot[launch[i].rot].seat = launch[i].seat
        BY <3>1, <3>3 DEF Backing, BackedBy
      <4>2. launch'[i].rot = launch[i].rot /\ launch'[i].seat = launch[i].seat
        BY <3>1
      <4>3. DOMAIN rot' = DOMAIN rot /\ rot'[launch[i].rot].seat = rot[launch[i].rot].seat
        BY <1>4, <4>1
      <4> QED
        BY <4>1, <4>2, <4>3
    <3>4. DOMAIN launch' = DOMAIN launch
      BY <1>3
    <3> QED
      BY <3>2, <3>3, <3>4
  <2>2. ASSUME NEW r1 \in DOMAIN rot', NEW r2 \in DOMAIN rot', rot'[r1].seat = rot'[r2].seat,
             rot'[r1].status \in ActiveRotation, rot'[r2].status \in ActiveRotation
      PROVE  r1 = r2
    <3>1. "applied" \notin ActiveRotation
      BY DEF ActiveRotation
    <3> QED
      BY <1>4, <2>2, <3>1 DEF Backing, BackedBy
  <2> QED
    BY <1>3, <1>4, <1>6, <1>7, <2>1, <2>2 DEF BackedBy
<1> QED
  BY <1>3, <1>4, <1>8 DEF TablesMove, TablesTyped, Backing, RotKept

\* A launch that belongs to no rotation ends, or a launch gets another credential.
LEMMA SeatRowBacking ==
  ASSUME TablesTyped, Backing, NEW l \in DOMAIN launch, NEW y \in LaunchSet,
         y.kind = launch[l].kind, y.seat = launch[l].seat, y.rot = launch[l].rot,
         y.thread = launch[l].thread,
         y.status = launch[l].status \/ launch[l].kind # "recredential",
         launch' = [launch EXCEPT ![l] = y], rot' = rot, seat' \in [Seats -> SeatSet]
  PROVE  TablesMove
<1>1. /\ launch' \in Seq(LaunchSet) /\ DOMAIN launch' = DOMAIN launch /\ LaunchKept(launch, launch')
      /\ \A i \in DOMAIN launch : launch'[i] = IF i = l THEN y ELSE launch[i]
  BY SeatRowWritten
<1>2. \A i \in DOMAIN launch :
        /\ launch'[i].kind = launch[i].kind /\ launch'[i].seat = launch[i].seat
        /\ launch'[i].rot = launch[i].rot
        /\ launch[i].kind = "recredential" => launch'[i].status = launch[i].status
  BY <1>1
<1>3. 0 \notin DOMAIN rot
  BY SeatRowTypes
<1>4. ASSUME NEW r \in DOMAIN rot, rot[r].status = "relaunching"
      PROVE  /\ rot[r].launch \in DOMAIN launch' /\ launch'[rot[r].launch].status = "launching"
             /\ launch'[rot[r].launch].rot = r
  <2>1. /\ rot[r].launch \in DOMAIN launch /\ launch[rot[r].launch].status = "launching"
        /\ launch[rot[r].launch].rot = r
    BY <1>4 DEF Backing, BackedBy
  <2>2. launch[rot[r].launch].kind = "recredential"
    BY <1>3, <2>1 DEF Backing, BackedBy
  <2> QED
    BY <1>1, <1>2, <2>1, <2>2
<1>5. \A i \in DOMAIN launch' : launch'[i].kind = "recredential" /\ launch'[i].status = "launching" =>
        rot[launch'[i].rot].status = "relaunching" /\ rot[launch'[i].rot].launch = i
  BY <1>1, <1>2 DEF Backing, BackedBy
<1>6. /\ \A i \in DOMAIN launch' : launch'[i].kind # "recredential" => launch'[i].rot = 0
      /\ \A i \in DOMAIN launch' : launch'[i].kind = "recredential" =>
             launch'[i].rot \in DOMAIN rot /\ rot[launch'[i].rot].seat = launch'[i].seat
  BY <1>1, <1>2 DEF Backing, BackedBy
<1>7. BackedBy(launch', rot)
  BY <1>4, <1>5, <1>6 DEF Backing, BackedBy
<1> QED
  BY <1>1, <1>7 DEF TablesMove, TablesTyped, Backing, RotKept

LEMMA SeatInconclusive ==
  ASSUME TablesTyped, Backing, NEW l \in DOMAIN launch, launch[l].kind # "recredential",
         MarkInconclusive(l)
  PROVE  TablesMove
<1> DEFINE y == [launch[l] EXCEPT !.status = "failed"]
<1>0. PICK x \in LaunchSet : x = launch[l]
  BY SeatRowTypes
<1>1. /\ y \in LaunchSet /\ y.kind = launch[l].kind /\ y.seat = launch[l].seat
      /\ y.rot = launch[l].rot /\ y.thread = launch[l].thread
  <2>1. "failed" \in {"launching", "applied", "failed"}
    OBVIOUS
  <2> QED
    BY <1>0, <2>1, SeatLaunchStatus
<1>2. launch' = [launch EXCEPT ![l] = y] /\ rot' = rot
  BY DEF MarkInconclusive
<1>3. seat' \in [Seats -> SeatSet]
  <2>1. launch[l].seat \in Seats
    BY <1>0 DEF LaunchSet
  <2> QED
    BY <2>1 DEF MarkInconclusive, TablesTyped, SeatSet
<1> HIDE DEF y
<1> QED
  BY <1>1, <1>2, <1>3, SeatRowBacking

LEMMA SeatReissued ==
  ASSUME TablesTyped, Backing, creds \in Nat, NEW l \in DOMAIN launch, Reissue(l), rot' = rot
  PROVE  /\ TablesMove /\ DOMAIN launch' = DOMAIN launch
         /\ \A i \in DOMAIN launch : launch'[i].status = launch[i].status
         /\ launch'[l].cred = creds + 1
<1> DEFINE y == [launch[l] EXCEPT !.cred = creds + 1]
<1>0. launch[l] \in LaunchSet
  BY SeatRowTypes
<1>1. /\ y \in LaunchSet /\ y.kind = launch[l].kind /\ y.seat = launch[l].seat
      /\ y.rot = launch[l].rot /\ y.thread = launch[l].thread /\ y.status = launch[l].status
      /\ y.cred = creds + 1
  BY <1>0 DEF LaunchSet
<1>2. launch' = [launch EXCEPT ![l] = y]
  BY DEF Reissue
<1>3. seat' \in [Seats -> SeatSet]
  <2>1. launch[l].seat \in Seats
    BY <1>0 DEF LaunchSet
  <2> QED
    <3> DEFINE s == launch[l].seat
               z == [[seat[s] EXCEPT !.cred = creds + 1] EXCEPT !.status = "stopped"]
    <3>1. z \in SeatSet
      <4>1. PICK x \in SeatSet : x = seat[s]
        BY <2>1 DEF TablesTyped
      <4>2. PICK c \in Nat : c = creds + 1
        OBVIOUS
      <4>3. PICK w \in SeatSet : w = [x EXCEPT !.cred = c]
        BY SeatFields
      <4>4. [w EXCEPT !.status = "stopped"] \in SeatSet
        BY SeatFields
      <4> QED
        BY <4>1, <4>2, <4>3, <4>4
    <3>2. seat' = [seat EXCEPT ![s] = z]
      BY <2>1 DEF Reissue, TablesTyped
    <3> QED
      BY <2>1, <3>1, <3>2 DEF TablesTyped
<1> HIDE DEF y
<1>4. TablesMove
  BY <1>1, <1>2, <1>3, SeatRowBacking
<1> QED
  BY <1>1, <1>2, <1>4, SeatRowWritten

LEMMA SeatAppends ==
  ASSUME NEW S, NEW q \in Seq(S), NEW y \in S, NEW p, p = Append(q, y)
  PROVE  /\ p \in Seq(S) /\ Len(q) \in Nat /\ DOMAIN q = 1 .. Len(q)
         /\ DOMAIN p = 1 .. Len(q) + 1 /\ DOMAIN q \subseteq DOMAIN p
         /\ p[Len(q) + 1] = y /\ Len(q) + 1 \in DOMAIN p /\ Len(q) + 1 \notin DOMAIN q
         /\ \A i \in DOMAIN p : i \in DOMAIN q \/ i = Len(q) + 1
         /\ \A i \in DOMAIN q : p[i] = q[i]
<1>1. Len(q) \in Nat /\ DOMAIN q = 1 .. Len(q)
  BY LenProperties
<1>2. p \in Seq(S) /\ Len(p) = Len(q) + 1 /\ p[Len(q) + 1] = y /\ \A i \in 1 .. Len(q) : p[i] = q[i]
  BY AppendProperties
<1>3. DOMAIN p = 1 .. Len(q) + 1
  BY <1>2, LenProperties
<1> QED
  BY <1>1, <1>2, <1>3

LEMMA SeatAppended ==
  ASSUME TablesTyped, Backing, NEW y \in LaunchSet, y.kind # "recredential", y.rot = 0,
         launch' = Append(launch, y), rot' = rot, seat' \in [Seats -> SeatSet]
  PROVE  TablesMove
<1> DEFINE n == Len(launch) + 1
<1>1. /\ launch' \in Seq(LaunchSet) /\ DOMAIN launch \subseteq DOMAIN launch'
      /\ launch'[n] = y
      /\ \A i \in DOMAIN launch' : i \in DOMAIN launch \/ i = n
      /\ \A i \in DOMAIN launch : launch'[i] = launch[i]
  BY SeatAppends DEF TablesTyped
<1> HIDE DEF n
<1>2. BackedBy(launch', rot)
  <2>1. \A i \in DOMAIN launch' : launch'[i].kind = "recredential" => i \in DOMAIN launch
    BY <1>1
  <2>2. /\ \A i \in DOMAIN launch' : launch'[i].kind # "recredential" => launch'[i].rot = 0
        /\ \A i \in DOMAIN launch' : launch'[i].kind = "recredential" =>
             launch'[i].rot \in DOMAIN rot /\ rot[launch'[i].rot].seat = launch'[i].seat
    BY <1>1, <2>1 DEF Backing, BackedBy
  <2>3. \A r \in DOMAIN rot : rot[r].status = "relaunching" =>
          rot[r].launch \in DOMAIN launch' /\ launch'[rot[r].launch].status = "launching"
          /\ launch'[rot[r].launch].rot = r
    BY <1>1 DEF Backing, BackedBy
  <2>4. \A i \in DOMAIN launch' : launch'[i].kind = "recredential" /\ launch'[i].status = "launching" =>
          rot[launch'[i].rot].status = "relaunching" /\ rot[launch'[i].rot].launch = i
    BY <1>1, <2>1 DEF Backing, BackedBy
  <2> QED
    BY <2>2, <2>3, <2>4 DEF Backing, BackedBy
<1> QED
  BY <1>1, <1>2 DEF TablesMove, TablesTyped, Backing, LaunchKept, RotKept

LEMMA SeatRequested ==
  ASSUME TablesTyped, Backing, NEW z \in RotSet, z.status = "waiting_idle",
         \A r \in DOMAIN rot : rot[r].seat = z.seat => rot[r].status = "failed",
         rot' = Append(rot, z), launch' = launch, seat' \in [Seats -> SeatSet]
  PROVE  TablesMove
<1> DEFINE n == Len(rot) + 1
<1>1. /\ rot' \in Seq(RotSet) /\ DOMAIN rot \subseteq DOMAIN rot'
      /\ rot'[n] = z
      /\ \A r \in DOMAIN rot' : r \in DOMAIN rot \/ r = n
      /\ \A r \in DOMAIN rot : rot'[r] = rot[r]
  BY SeatAppends DEF TablesTyped
<1> HIDE DEF n
<1>2. BackedBy(launch, rot')
  <2>1. \A i \in DOMAIN launch : launch[i].kind = "recredential" =>
             launch[i].rot \in DOMAIN rot' /\ rot'[launch[i].rot].seat = launch[i].seat
    BY <1>1 DEF Backing, BackedBy
  <2>2. \A r \in DOMAIN rot' : rot'[r].status = "relaunching" =>
          rot'[r].launch \in DOMAIN launch /\ launch[rot'[r].launch].status = "launching"
          /\ launch[rot'[r].launch].rot = r
    BY <1>1 DEF Backing, BackedBy
  <2>3. \A i \in DOMAIN launch : launch[i].kind = "recredential" /\ launch[i].status = "launching" =>
          rot'[launch[i].rot].status = "relaunching" /\ rot'[launch[i].rot].launch = i
    BY <1>1 DEF Backing, BackedBy
  <2>4. ASSUME NEW r1 \in DOMAIN rot', NEW r2 \in DOMAIN rot', rot'[r1].seat = rot'[r2].seat,
             rot'[r1].status \in ActiveRotation, rot'[r2].status \in ActiveRotation
      PROVE  r1 = r2
    <3>1. "failed" \notin ActiveRotation
      BY DEF ActiveRotation
    <3> QED
      BY <1>1, <2>4, <3>1 DEF Backing, BackedBy
  <2>5. \A i \in DOMAIN launch : launch[i].kind # "recredential" => launch[i].rot = 0
    BY DEF Backing, BackedBy
  <2> QED
    BY <2>1, <2>2, <2>3, <2>4, <2>5 DEF BackedBy
<1> QED
  BY <1>1, <1>2 DEF TablesMove, TablesTyped, Backing, LaunchKept, RotKept

LEMMA SeatRotWritten ==
  ASSUME TablesTyped, NEW r \in DOMAIN rot, NEW z \in RotSet,
         z.seat = rot[r].seat, z.thread = rot[r].thread, NEW p, p = [rot EXCEPT ![r] = z]
  PROVE  /\ p \in Seq(RotSet) /\ DOMAIN p = DOMAIN rot /\ RotKept(rot, p)
         /\ \A i \in DOMAIN rot : p[i] = IF i = r THEN z ELSE rot[i]
<1>1. \A i \in DOMAIN rot : rot[i] \in RotSet
  BY SeatRowTypes
<1>2. DOMAIN p = DOMAIN rot /\ \A i \in DOMAIN rot : p[i] = IF i = r THEN z ELSE rot[i]
  OBVIOUS
<1>3. p \in [DOMAIN rot -> RotSet]
  BY <1>1, <1>2
<1>4. p \in Seq(RotSet)
  BY <1>3, SeatRows DEF TablesTyped
<1>5. RotKept(rot, p)
  BY <1>2 DEF RotKept
<1> QED
  BY <1>2, <1>4, <1>5

LEMMA SeatGivesUp ==
  ASSUME TablesTyped, Backing, NEW r \in DOMAIN rot, rot[r].status = "waiting_idle",
         rot' = [rot EXCEPT ![r].status = "failed"], launch' = launch, seat' \in [Seats -> SeatSet]
  PROVE  TablesMove
<1> DEFINE z == [rot[r] EXCEPT !.status = "failed"]
<1>1. /\ z \in RotSet /\ z.seat = rot[r].seat /\ z.thread = rot[r].thread
      /\ z.status = "failed"
  BY SeatRowTypes DEF RotSet
<1>2. rot' = [rot EXCEPT ![r] = z]
  OBVIOUS
<1> HIDE DEF z
<1>3. /\ rot' \in Seq(RotSet) /\ DOMAIN rot' = DOMAIN rot /\ RotKept(rot, rot')
      /\ \A i \in DOMAIN rot : rot'[i] = IF i = r THEN z ELSE rot[i]
  BY <1>1, <1>2, SeatRotWritten
<1>4. BackedBy(launch, rot')
  <2>1. \A i \in DOMAIN launch : launch[i].kind = "recredential" =>
             launch[i].rot \in DOMAIN rot' /\ rot'[launch[i].rot].seat = launch[i].seat
    BY <1>1, <1>3 DEF Backing, BackedBy
  <2>2. \A i \in DOMAIN rot' : rot'[i].status = "relaunching" =>
          rot'[i].launch \in DOMAIN launch /\ launch[rot'[i].launch].status = "launching"
          /\ launch[rot'[i].launch].rot = i
    BY <1>1, <1>3 DEF Backing, BackedBy
  <2>3. \A i \in DOMAIN launch : launch[i].kind = "recredential" /\ launch[i].status = "launching" =>
          rot'[launch[i].rot].status = "relaunching" /\ rot'[launch[i].rot].launch = i
    BY <1>1, <1>3 DEF Backing, BackedBy
  <2>4. ASSUME NEW r1 \in DOMAIN rot', NEW r2 \in DOMAIN rot', rot'[r1].seat = rot'[r2].seat,
             rot'[r1].status \in ActiveRotation, rot'[r2].status \in ActiveRotation
      PROVE  r1 = r2
    <3>1. "failed" \notin ActiveRotation
      BY DEF ActiveRotation
    <3> QED
      BY <1>1, <1>3, <2>4, <3>1 DEF Backing, BackedBy
  <2>5. \A i \in DOMAIN launch : launch[i].kind # "recredential" => launch[i].rot = 0
    BY DEF Backing, BackedBy
  <2> QED
    BY <2>1, <2>2, <2>3, <2>4, <2>5 DEF BackedBy
<1> QED
  BY <1>3, <1>4 DEF TablesMove, TablesTyped, Backing, LaunchKept

LEMMA SeatRelaunched ==
  ASSUME TablesTyped, Backing, NEW r \in DOMAIN rot, rot[r].status = "waiting_idle",
         NEW y \in LaunchSet, y.kind = "recredential", y.rot = r, y.seat = rot[r].seat,
         y.status = "launching", launch' = Append(launch, y),
         rot' = [rot EXCEPT ![r].status = "relaunching", ![r].launch = Len(launch) + 1],
         seat' \in [Seats -> SeatSet]
  PROVE  TablesMove
<1> DEFINE n == Len(launch) + 1
           z == [[rot[r] EXCEPT !.status = "relaunching"] EXCEPT !.launch = n]
<1>1. /\ launch' \in Seq(LaunchSet) /\ DOMAIN launch \subseteq DOMAIN launch'
      /\ launch'[n] = y /\ n \in DOMAIN launch' /\ n \notin DOMAIN launch /\ n \in Nat
      /\ \A i \in DOMAIN launch' : i \in DOMAIN launch \/ i = n
      /\ \A i \in DOMAIN launch : launch'[i] = launch[i]
  BY SeatAppends DEF TablesTyped
<1>2. rot' = [rot EXCEPT ![r] = z]
  OBVIOUS
<1> HIDE DEF n
<1>3. /\ z \in RotSet /\ z.seat = rot[r].seat /\ z.thread = rot[r].thread
      /\ z.status = "relaunching" /\ z.launch = n
  BY <1>1, SeatRowTypes DEF RotSet
<1> HIDE DEF z
<1>4. /\ rot' \in Seq(RotSet) /\ DOMAIN rot' = DOMAIN rot /\ RotKept(rot, rot')
      /\ \A i \in DOMAIN rot : rot'[i] = IF i = r THEN z ELSE rot[i]
  BY <1>2, <1>3, SeatRotWritten
<1>5. BackedBy(launch', rot')
  <2>1. \A i \in DOMAIN launch' : launch'[i].kind = "recredential" =>
             launch'[i].rot \in DOMAIN rot' /\ rot'[launch'[i].rot].seat = launch'[i].seat
    BY <1>1, <1>3, <1>4 DEF Backing, BackedBy
  <2>2. \A i \in DOMAIN rot' : rot'[i].status = "relaunching" =>
          rot'[i].launch \in DOMAIN launch' /\ launch'[rot'[i].launch].status = "launching"
          /\ launch'[rot'[i].launch].rot = i
    BY <1>1, <1>3, <1>4 DEF Backing, BackedBy
  <2>3. ASSUME NEW i \in DOMAIN launch', launch'[i].kind = "recredential",
               launch'[i].status = "launching"
        PROVE  rot'[launch'[i].rot].status = "relaunching" /\ rot'[launch'[i].rot].launch = i
    <3>1. CASE i = n
      BY <1>1, <1>3, <1>4, <3>1
    <3>2. CASE i \in DOMAIN launch
      <4>1. /\ launch[i].rot \in DOMAIN rot
            /\ rot[launch[i].rot].status = "relaunching" /\ rot[launch[i].rot].launch = i
        BY <1>1, <2>3, <3>2 DEF Backing, BackedBy
      <4> QED
        BY <1>1, <1>4, <3>2, <4>1
    <3> QED
      BY <1>1, <3>1, <3>2
  <2>4. ASSUME NEW r1 \in DOMAIN rot', NEW r2 \in DOMAIN rot', rot'[r1].seat = rot'[r2].seat,
             rot'[r1].status \in ActiveRotation, rot'[r2].status \in ActiveRotation
      PROVE  r1 = r2
    <3>1. "waiting_idle" \in ActiveRotation
      BY DEF ActiveRotation
    <3>2. \A i \in DOMAIN rot : rot'[i].status \in ActiveRotation => rot[i].status \in ActiveRotation
      BY <1>4, <3>1
    <3>3. \A i \in DOMAIN rot : rot'[i].seat = rot[i].seat
      BY <1>3, <1>4
    <3> QED
      BY <1>4, <2>4, <3>2, <3>3 DEF Backing, BackedBy
  <2>5. \A i \in DOMAIN launch' : launch'[i].kind # "recredential" => launch'[i].rot = 0
    BY <1>1 DEF Backing, BackedBy
  <2> QED
    BY <2>1, <2>2, <2>3, <2>4, <2>5 DEF BackedBy
<1> QED
  BY <1>1, <1>4, <1>5 DEF TablesMove, TablesTyped, Backing, LaunchKept

-----------------------------------------------------------------------------
(* The operations *)

Relaunch == held.op \in {"restore", "rotate", "recover"}

\* What the operation that holds the guard relies on while it relaunches a seat
RelaunchRight ==
  /\ held.l \in DOMAIN launch /\ launch[held.l].status = "launching"
  /\ held.op = "restore" => launch[held.l].kind = "restore"
  /\ held.op = "rotate" => launch[held.l].kind = "recredential"
  /\ held.op = "recover" /\ serving => launch[held.l].kind = "recredential"
  /\ seat[Target].retired => launch[held.l].kind = "restore"
  /\ IsStopped(Target) /\ seat[Target].there
  /\ held.pc \in {"kill", "start", "verify", "check", "wait", "commit"}
  /\ held.pc = "verify" => held.op = "restore" /\ prov[Target] = "codex-fork"
  /\ held.pc = "check" => held.op = "rotate"
  /\ held.pc = "wait" => Removes

Retiring(s) == held.op = "retire" /\ held.l = s /\ held.pc \in {"kill", "commit"}

HeldRight ==
  /\ Relaunch => RelaunchRight
  /\ held = NoOp \/ Relaunch \/ \E s \in Seats : Retiring(s)

\* A create handler has its launch; nobody creates while the server starts up.
MakerRight ==
  \A s \in Seats : maker[s].pc # "none" =>
    /\ serving /\ maker[s].l \in DOMAIN launch
    /\ launch[maker[s].l].kind = "create" /\ launch[maker[s].l].seat = s

\* A worker remembers a rotation or a launch of its seat.
WorkerRight ==
  \A s \in Seats :
    /\ worker[s].pc = "fence" => worker[s].l \in DOMAIN rot /\ rot[worker[s].l].seat = s
    /\ worker[s].pc = "recover" =>
         /\ worker[s].l \in DOMAIN launch /\ launch[worker[s].l].kind = "recredential"
         /\ launch[worker[s].l].seat = s

SeatBase ==
  /\ TablesTyped /\ Backing /\ MemoryTyped /\ HostTyped
  /\ HeldRight /\ MakerRight /\ WorkerRight

LEMMA SeatStill ==
  ASSUME TablesTyped, Backing, launch' = launch, rot' = rot, seat' \in [Seats -> SeatSet]
  PROVE  TablesMove
  BY DEF TablesMove, TablesTyped, Backing, LaunchKept, RotKept

LEMMA SeatWorkers ==
  ASSUME WorkerRight, TablesMove,
         \A s \in Seats : worker'[s] = worker[s] \/ worker'[s].pc \notin {"fence", "recover"}
  PROVE  WorkerRight'
  BY DEF WorkerRight, TablesMove, LaunchKept, RotKept

LEMMA SeatMakers ==
  ASSUME MakerRight, TablesMove,
         \A s \in Seats : maker'[s].pc = "none"
            \/ (serving' = serving /\ maker'[s].l = maker[s].l /\ maker[s].pc # "none")
  PROVE  MakerRight'
  BY DEF MakerRight, TablesMove, LaunchKept

LEMMA SeatIdleHeld ==
  ASSUME held' = NoOp
  PROVE  HeldRight' /\ held' \in HeldSet
<1>1. NoOp \in HeldSet
  BY DEF NoOp, HeldSet
<1>2. NoOp.op = "none"
  BY DEF NoOp
<1> QED
  BY <1>1, <1>2 DEF HeldRight, Relaunch

LEMMA SeatAsideHeld ==
  ASSUME HeldRight, held' = held, seat' = seat, launch' = launch, serving' = serving, prov' = prov
  PROVE  HeldRight'
  BY DEF HeldRight, Relaunch, RelaunchRight, Target, IsStopped, Removes, Retiring

\* What a held operation and its target are
LEMMA SeatTarget ==
  ASSUME SeatBase, Relaunch
  PROVE  /\ held.l \in DOMAIN launch /\ launch[held.l] \in LaunchSet /\ Target \in Seats
         /\ RelaunchRight /\ seat[Target] \in SeatSet /\ Cred \in Nat
<1>1. RelaunchRight
  BY DEF SeatBase, HeldRight
<1>2. held.l \in DOMAIN launch
  BY <1>1 DEF RelaunchRight
<1>3. launch[held.l] \in LaunchSet
  BY <1>2, SeatRowTypes DEF SeatBase
<1>4. Target \in Seats /\ Cred \in Nat
  BY <1>3 DEF Target, LaunchSet, Cred
<1> QED
  BY <1>1, <1>2, <1>3, <1>4 DEF SeatBase, TablesTyped

LEMMA SeatStepHeld ==
  ASSUME SeatBase, Relaunch,
         NEW pc \in {"kill", "start", "verify", "check", "wait", "commit"}, Step(pc),
         pc = "verify" => held.op = "restore" /\ prov[Target] = "codex-fork",
         pc = "check" => held.op = "rotate", pc = "wait" => Removes,
         launch' = launch, prov' = prov, serving' = serving,
         seat'[Target].status = seat[Target].status, seat'[Target].retired = seat[Target].retired,
         seat'[Target].there = seat[Target].there
  PROVE  /\ HeldRight' /\ held' \in HeldSet /\ Relaunch'
         /\ held'.l = held.l /\ held'.op = held.op /\ held'.pc = pc
<1>1. held \in HeldSet
  BY DEF SeatBase, MemoryTyped
<1>2. held'.l = held.l /\ held'.op = held.op /\ held'.pc = pc /\ held' \in HeldSet
  BY <1>1 DEF Step, HeldSet
<1>3. RelaunchRight
  BY SeatTarget
<1>4. Relaunch' /\ Target' = Target /\ (Removes <=> Removes')
  BY <1>2 DEF Relaunch, Target, Removes
<1>4a. seat'[Target'].status = seat[Target].status /\ seat'[Target'].retired = seat[Target].retired
       /\ seat'[Target'].there = seat[Target].there
  BY <1>4
<1>5. RelaunchRight'
  <2>1. IsStopped(Target)' 
    BY <1>3, <1>4, <1>4a DEF RelaunchRight, IsStopped
  <2> QED
    BY <1>2, <1>3, <1>4, <1>4a, <2>1 DEF RelaunchRight
<1> QED
  BY <1>2, <1>4, <1>5 DEF HeldRight

LEMMA SeatInitBase ==
  SeatInit => SeatBase
<1> SUFFICES ASSUME SeatInit PROVE SeatBase
  OBVIOUS
<1>1. seat \in [Seats -> SeatSet]
  BY DEF SeatInit, SeatSet, NoSeat
<1>2. launch = <<>> /\ rot = <<>>
  BY DEF SeatInit
<1>3. TablesTyped
  BY <1>1, <1>2, EmptySeq DEF TablesTyped
<1>4. DOMAIN launch = {} /\ DOMAIN rot = {}
  BY <1>2
<1>5. Backing
  BY <1>4 DEF Backing, BackedBy
<1>6. held \in HeldSet /\ HeldRight
  BY DEF SeatInit, HeldRight, Relaunch, NoOp, HeldSet
<1>7. MemoryTyped
  BY <1>6 DEF SeatInit, MemoryTyped, MakerSet, ClearerSet, WorkerSet, Asleep
<1>8. HostTyped
  BY DEF SeatInit, HostTyped
<1>9. MakerRight /\ WorkerRight
  BY DEF SeatInit, MakerRight, WorkerRight, Asleep
<1> QED
  BY <1>3, <1>5, <1>6, <1>7, <1>8, <1>9 DEF SeatBase

\* The step leaves the base in order.
BaseKept == SeatBase' /\ TablesMove

LEMMA SeatBaseCreate ==
  ASSUME SeatBase, NEW s \in Seats, CreateBegin(s)
  PROVE  BaseKept
<1>0. GuardFree /\ held' = held /\ worker' = worker /\ serving' = serving
  BY DEF CreateBegin
<1>1. PICK brief \in BOOLEAN :
        LET th == IF brief THEN threads + 1 ELSE 0 IN
        /\ launch' = Append(launch, LaunchRecord("create", s, th, 0, brief))
        /\ seat' = [seat EXCEPT ![s] = [NoSeat EXCEPT !.there = TRUE, !.cred = creds + 1,
                                                     !.thread = th]]
  BY DEF CreateBegin
<1> DEFINE th == IF brief THEN threads + 1 ELSE 0
           y == LaunchRecord("create", s, th, 0, brief)
<1>2. th \in Nat /\ creds + 1 \in Nat /\ threads + 1 \in Nat /\ Len(launch) + 1 \in Nat
  BY SeatRowTypes DEF SeatBase, HostTyped
<1>3. seat' \in [Seats -> SeatSet]
  <2> HIDE DEF th
  <2>1. [NoSeat EXCEPT !.there = TRUE, !.cred = creds + 1, !.thread = th] \in SeatSet
    BY <1>2 DEF NoSeat, SeatSet
  <2> QED
    BY <1>1, <2>1 DEF SeatBase, TablesTyped, th
<1>4. y \in LaunchSet /\ y.kind = "create" /\ y.seat = s /\ y.rot = 0 /\ launch' = Append(launch, y)
  <2>1. launch' = Append(launch, y)
    BY <1>1
  <2> HIDE DEF th
  <2> QED
    BY <1>2, <2>1 DEF LaunchRecord, LaunchSet
<1> HIDE DEF y, th
<1>5. TablesMove
  BY <1>3, <1>4, SeatAppended DEF SeatBase, CreateBegin
<1>6. HostTyped'
  BY <1>2 DEF SeatBase, HostTyped, CreateBegin
<1>7. HeldRight' /\ held' \in HeldSet
  BY <1>0, SeatIdleHeld DEF GuardFree
<1>8. MemoryTyped'
  BY <1>2, <1>7 DEF SeatBase, MemoryTyped, CreateBegin, MakerSet
<1>9. MakerRight'
  <2>1. /\ launch'[Len(launch) + 1] = y /\ Len(launch) + 1 \in DOMAIN launch'
    BY <1>4, SeatAppends DEF SeatBase, TablesTyped
  <2>2. maker' = [maker EXCEPT ![s] = [pc |-> "start", l |-> Len(launch) + 1, th |-> threads + 1]]
    BY DEF CreateBegin
  <2>3. serving'
    BY <1>0 DEF GuardFree
  <2>4. ASSUME NEW t \in Seats, maker'[t].pc # "none"
        PROVE  /\ maker'[t].l \in DOMAIN launch'
               /\ launch'[maker'[t].l].kind = "create" /\ launch'[maker'[t].l].seat = t
    <3>1. CASE t = s
      BY <1>4, <2>1, <2>2, <3>1 DEF SeatBase, MemoryTyped
    <3>2. CASE t # s
      <4>1. maker'[t] = maker[t]
        BY <2>2, <3>2 DEF SeatBase, MemoryTyped
      <4> QED
        BY <1>5, <2>4, <4>1 DEF SeatBase, MakerRight, TablesMove, LaunchKept
    <3> QED
      BY <3>1, <3>2
  <2> QED
    BY <2>3, <2>4 DEF MakerRight
<1>10. WorkerRight'
  BY <1>0, <1>5, SeatWorkers DEF SeatBase
<1> QED
  BY <1>5, <1>6, <1>7, <1>8, <1>9, <1>10 DEF SeatBase, BaseKept, TablesMove

\* Steps that leave the registry and the guard alone
LEMMA SeatBaseAside ==
  ASSUME SeatBase, UNCHANGED <<prov, seat, launch, rot, held, serving>>,
         HostTyped', MemoryTyped',
         \A s \in Seats : maker'[s].pc = "none" \/ (maker'[s].l = maker[s].l /\ maker[s].pc # "none"),
         \A s \in Seats : worker'[s] = worker[s] \/ worker'[s].pc \notin {"fence", "recover"}
  PROVE  BaseKept
<1>1. TablesMove
  BY SeatStill DEF SeatBase, TablesTyped
<1>2. HeldRight'
  BY SeatAsideHeld DEF SeatBase
<1>3. MakerRight'
  BY <1>1, SeatMakers DEF SeatBase
<1>4. WorkerRight'
  BY <1>1, SeatWorkers DEF SeatBase
<1> QED
  BY <1>1, <1>2, <1>3, <1>4 DEF SeatBase, BaseKept, TablesMove

\* Steps of others while the guard is free
LEMMA SeatBaseGuarded ==
  ASSUME SeatBase, held' = NoOp, TablesMove, prov' = prov, serving' = serving,
         HostTyped', MemoryTyped',
         \A s \in Seats : maker'[s].pc = "none" \/ (maker'[s].l = maker[s].l /\ maker[s].pc # "none"),
         \A s \in Seats : worker'[s] = worker[s] \/ worker'[s].pc \notin {"fence", "recover"}
  PROVE  BaseKept
<1>2. HeldRight'
  BY SeatIdleHeld
<1>3. MakerRight'
  BY SeatMakers DEF SeatBase
<1>4. WorkerRight'
  BY SeatWorkers DEF SeatBase
<1> QED
  BY <1>2, <1>3, <1>4 DEF SeatBase, BaseKept, TablesMove

LEMMA SeatSameMaker ==
  ASSUME MemoryTyped, maker' = maker
  PROVE  \A s \in Seats : maker'[s].pc = "none" \/ (maker'[s].l = maker[s].l /\ maker[s].pc # "none")
  OBVIOUS

LEMMA SeatFaultTyped ==
  ASSUME HostTyped, Fault \/ NoFault
  PROVE  seatFaults' \in Nat
  BY DEF HostTyped, Fault, NoFault

LEMMA SeatBaseMakerStart ==
  ASSUME SeatBase, NEW s \in Seats, MakerStart(s)
  PROVE  BaseKept
<1>0. maker[s].pc = "start" /\ maker[s].l \in DOMAIN launch
  BY DEF SeatBase, MakerRight, MakerStart
<1>1. launch[maker[s].l].cred \in Nat
  BY <1>0, SeatRowTypes DEF SeatBase, LaunchSet
<1>2. seatFaults' \in Nat
  BY SeatFaultTyped DEF SeatBase, MakerStart
<1>3. HostTyped'
  BY <1>1, <1>2 DEF SeatBase, HostTyped, MakerStart, MemoryTyped, MakerSet
<1>4. MemoryTyped' /\ \A t \in Seats : maker'[t].l = maker[t].l /\ (t # s => maker'[t] = maker[t])
  BY DEF SeatBase, MemoryTyped, MakerStart, MakerSet
<1>5. \A t \in Seats : maker'[t].pc = "none" \/ (maker'[t].l = maker[t].l /\ maker[t].pc # "none")
  BY <1>0, <1>4
<1> QED
  BY <1>3, <1>4, <1>5, SeatBaseAside DEF MakerStart

LEMMA SeatBaseMakerWait ==
  ASSUME SeatBase, NEW s \in Seats, MakerWait(s)
  PROVE  BaseKept
<1>0. maker[s].pc = "wait" /\ maker[s].l \in DOMAIN launch
  BY DEF SeatBase, MakerRight, MakerWait
<1>1. launch[maker[s].l].thread \in Nat /\ conv[s] \in Nat
  BY <1>0, SeatRowTypes DEF SeatBase, LaunchSet, HostTyped
<1>2. seatFaults' \in Nat
  BY SeatFaultTyped DEF SeatBase, MakerWait
<1>3. HostTyped'
  BY <1>2 DEF SeatBase, HostTyped, MakerWait
<1>4. \/ \E th \in Nat : maker' = [maker EXCEPT ![s].pc = "commit", ![s].th = th]
      \/ maker' = [maker EXCEPT ![s].pc = "failed"]
  <2>1. prov[s] \in {"claude", "codex", "codex-fork"}
    BY SeatAssumption DEF SeatBase, HostTyped
  <2> QED
    BY <1>1, <2>1 DEF MakerWait
<1>5. maker' \in [Seats -> MakerSet]
      /\ \A t \in Seats : maker'[t].l = maker[t].l /\ (t # s => maker'[t] = maker[t])
  BY <1>4 DEF SeatBase, MemoryTyped, MakerSet
<1>6. MemoryTyped'
  BY <1>5 DEF SeatBase, MemoryTyped, MakerWait
<1>7. \A t \in Seats : maker'[t].pc = "none" \/ (maker'[t].l = maker[t].l /\ maker[t].pc # "none")
  BY <1>0, <1>5
<1> QED
  BY <1>3, <1>6, <1>7, SeatBaseAside DEF MakerWait

LEMMA SeatBaseMakerFailed ==
  ASSUME SeatBase, NEW s \in Seats, MakerFailed(s)
  PROVE  BaseKept
<1>0. /\ maker[s].pc = "failed" /\ maker[s].l \in DOMAIN launch
      /\ launch[maker[s].l].kind = "create"
  BY DEF SeatBase, MakerRight, MakerFailed
<1>1. TablesMove
  <2>1. (~seat[s].retired) \in BOOLEAN
    OBVIOUS
  <2> QED
    BY <1>0, <2>1, SeatFails DEF SeatBase, MakerFailed
<1>2. MemoryTyped' /\ \A t \in Seats : maker'[t].pc = "none" \/ maker'[t] = maker[t]
  BY DEF SeatBase, MemoryTyped, MakerFailed, MakerSet, Asleep
<1>3. HostTyped'
  BY DEF SeatBase, HostTyped, MakerFailed
<1> QED
  BY <1>1, <1>2, <1>3, SeatBaseGuarded DEF MakerFailed, GuardFree

LEMMA SeatBaseMakerCommit ==
  ASSUME SeatBase, NEW s \in Seats, MakerCommit(s)
  PROVE  BaseKept
<1>0. /\ maker[s].pc = "commit" /\ maker[s].l \in DOMAIN launch
      /\ launch[maker[s].l].kind = "create" /\ launch[maker[s].l].seat = s
  BY DEF SeatBase, MakerRight, MakerCommit
<1>1. TablesMove
  <2>1. CASE MarkFailed(maker[s].l, FALSE)
    BY <1>0, <2>1, SeatFails DEF SeatBase
  <2>2. CASE MarkApplied(maker[s].l)
             /\ seat' = [seat EXCEPT ![s].status = "running", ![s].thread = maker[s].th]
    <3>1. seat' \in [Seats -> SeatSet]
      <4>1. PICK x \in SeatSet : x = seat[s]
        BY DEF SeatBase, TablesTyped
      <4>2. PICK c \in Nat : c = maker[s].th
        BY DEF SeatBase, MemoryTyped, MakerSet
      <4>3. PICK a \in SeatSet : a = [x EXCEPT !.status = "running"]
        BY SeatFields
      <4>4. PICK e \in SeatSet : e = [a EXCEPT !.thread = c]
        BY SeatFields
      <4>5. seat \in [Seats -> SeatSet]
        BY DEF SeatBase, TablesTyped
      <4>6. seat' = [seat EXCEPT ![s] = e]
        BY <2>2, <4>1, <4>2, <4>3, <4>4, <4>5
      <4> QED
        BY <4>5, <4>6
    <3>2. TablesTyped /\ Backing
      BY DEF SeatBase
    <3>3. launch[maker[s].l].kind = "recredential" => launch[maker[s].l].status = "launching"
      BY <1>0
    <3> QED
      BY <1>0, <2>2, <3>1, <3>2, <3>3, SeatApplies
  <2> QED
    BY <2>1, <2>2 DEF MakerCommit
<1>2. maker' \in [Seats -> MakerSet] /\ \A t \in Seats : maker'[t].pc = "none" \/ maker'[t] = maker[t]
  BY DEF SeatBase, MemoryTyped, MakerCommit, MakerSet, Asleep
<1>2a. clearer' \in [Seats -> ClearerSet]
  <2>1. [Asleep EXCEPT !.pc = "rebind"] \in ClearerSet
    BY DEF Asleep, ClearerSet
  <2>2. clearer' = clearer \/ clearer' = [clearer EXCEPT ![s] = [Asleep EXCEPT !.pc = "rebind"]]
    BY DEF MakerCommit
  <2> QED
    BY <2>1, <2>2 DEF SeatBase, MemoryTyped
<1>2b. MemoryTyped'
  BY <1>2, <1>2a DEF SeatBase, MemoryTyped, MakerCommit
<1>3. HostTyped'
  <2>1. pane' = pane \/ pane' = [pane EXCEPT ![s] = 0]
    BY DEF MakerCommit
  <2>2. pane' \in [Seats -> Nat]
    BY <2>1 DEF SeatBase, HostTyped
  <2> QED
    BY <2>2 DEF SeatBase, HostTyped, MakerCommit
<1> QED
  BY <1>1, <1>2, <1>2b, <1>3, SeatBaseGuarded DEF MakerCommit, GuardFree

LEMMA SeatBaseRestore ==
  ASSUME SeatBase, NEW s \in Seats, RestoreBegin(s)
  PROVE  BaseKept
<1>0. /\ GuardFree /\ worker' = worker /\ serving' = serving /\ maker' = maker /\ prov' = prov
      /\ seat[s].there /\ IsStopped(s) /\ held' = Op("restore", Len(launch) + 1, "kill")
  BY DEF RestoreBegin
<1>1. PICK th \in Resumable(s) :
       /\ launch' = Append(launch, LaunchRecord("restore", s, th, 0, FALSE))
       /\ seat' = [seat EXCEPT ![s].thread = th,
                              ![s].cred = IF prov[s] = "codex-fork" THEN @ ELSE creds + 1]
  BY DEF RestoreBegin
<1> DEFINE y == LaunchRecord("restore", s, th, 0, FALSE)
           n == Len(launch) + 1
<1>2. th \in Nat /\ creds + 1 \in Nat /\ n \in Nat
  <2>1. Resumable(s) \subseteq Nat
    BY DEF Resumable, SeatBase, TablesTyped, SeatSet, HostTyped
  <2> QED
    BY <2>1, SeatRowTypes DEF SeatBase, HostTyped
<1>3. /\ seat' \in [Seats -> SeatSet] /\ seat'[s].status = seat[s].status
      /\ seat'[s].retired = seat[s].retired /\ seat'[s].there = seat[s].there
  <2>1. PICK x \in SeatSet : x = seat[s]
    BY DEF SeatBase, TablesTyped
  <2>2. PICK c \in Nat : c = IF prov[s] = "codex-fork" THEN x.cred ELSE creds + 1
    BY <1>2 DEF SeatSet
  <2>3. PICK w \in SeatSet : w = [x EXCEPT !.thread = th]
    BY <1>2, SeatFields
  <2>4. PICK z \in SeatSet : z = [w EXCEPT !.cred = c]
    BY SeatFields
  <2>5. z.status = x.status /\ z.retired = x.retired /\ z.there = x.there /\ w.cred = x.cred
    BY <2>3, <2>4 DEF SeatSet
  <2>6. seat' = [seat EXCEPT ![s] = z]
    BY <1>1, <2>1, <2>2, <2>3, <2>4, <2>5 DEF SeatBase, TablesTyped
  <2> QED
    BY <2>1, <2>5, <2>6 DEF SeatBase, TablesTyped
<1>4. /\ y \in LaunchSet /\ y.kind = "restore" /\ y.seat = s /\ y.rot = 0 /\ y.status = "launching"
      /\ launch' = Append(launch, y)
  BY <1>1, <1>2 DEF LaunchRecord, LaunchSet
<1> HIDE DEF y
<1>5. TablesMove
  BY <1>3, <1>4, SeatAppended DEF SeatBase, RestoreBegin
<1>6. HostTyped'
  BY <1>2 DEF SeatBase, HostTyped, RestoreBegin
<1>7. launch'[n] = y /\ n \in DOMAIN launch'
  BY <1>4, SeatAppends DEF SeatBase, TablesTyped
<1> HIDE DEF n
<1>8. held' \in HeldSet /\ held'.op = "restore" /\ held'.l = n /\ held'.pc = "kill"
  BY <1>0, <1>2 DEF Op, HeldSet, n
<1>9. HeldRight'
  <2>1. launch'[held'.l] = y /\ Target' = s
    BY <1>4, <1>7, <1>8 DEF Target
  <2>2. IsStopped(s)' /\ seat'[s].there
    BY <1>0, <1>3 DEF IsStopped
  <2>3. RelaunchRight'
    BY <1>4, <1>7, <1>8, <2>1, <2>2 DEF RelaunchRight
  <2> QED
    BY <1>8, <2>3 DEF HeldRight, Relaunch
<1>10. MemoryTyped'
  BY <1>8 DEF SeatBase, MemoryTyped, RestoreBegin
<1>11. MakerRight'
  BY <1>0, <1>5, SeatMakers DEF SeatBase
<1>12. WorkerRight'
  BY <1>0, <1>5, SeatWorkers DEF SeatBase
<1> QED
  BY <1>5, <1>6, <1>9, <1>10, <1>11, <1>12 DEF SeatBase, BaseKept, TablesMove

\* A held operation other than a relaunch goes on
LEMMA SeatBaseHeld ==
  ASSUME SeatBase, HeldRight', TablesMove, prov' = prov, serving' = serving,
         HostTyped', MemoryTyped', maker' = maker,
         \A s \in Seats : worker'[s] = worker[s] \/ worker'[s].pc \notin {"fence", "recover"}
  PROVE  BaseKept
<1>3. MakerRight'
  BY SeatMakers DEF SeatBase
<1>4. WorkerRight'
  BY SeatWorkers DEF SeatBase
<1> QED
  BY <1>3, <1>4 DEF SeatBase, BaseKept, TablesMove

LEMMA SeatBaseRetire ==
  ASSUME SeatBase,
         (\E s \in Seats : RetireBegin(s)) \/ RetireKill \/ RetireCommit
  PROVE  BaseKept
<1>1. CASE \E s \in Seats : RetireBegin(s)
  <2>1. PICK s \in Seats : RetireBegin(s)
    BY <1>1
  <2>2. held' = [op |-> "retire", l |-> s, pc |-> "kill"]
    BY <2>1 DEF RetireBegin
  <2>3. HeldRight' /\ held' \in HeldSet
    BY <2>2 DEF HeldRight, Relaunch, Retiring, HeldSet
  <2>4. TablesMove
    BY <2>1, SeatStill DEF SeatBase, TablesTyped, RetireBegin
  <2>5. MemoryTyped' /\ HostTyped'
    BY <2>1, <2>3 DEF SeatBase, MemoryTyped, HostTyped, RetireBegin
  <2> QED
    BY <2>1, <2>3, <2>4, <2>5, SeatBaseHeld DEF RetireBegin
<1>2. CASE RetireKill
  <2>1. PICK s \in Seats : Retiring(s)
    BY <1>2 DEF SeatBase, HeldRight, RetireKill, NoOp, Relaunch
  <2>2. held.l = s /\ held.op = "retire" /\ held \in HeldSet
    BY <2>1 DEF Retiring, SeatBase, MemoryTyped
  <2>3. HeldRight' /\ held' \in HeldSet
    <3>1. CASE Done
      BY <3>1, SeatIdleHeld DEF Done
    <3>2. CASE Step("commit")
      <4>1. held'.op = "retire" /\ held'.l = s /\ held'.pc = "commit" /\ held' \in HeldSet
        BY <2>2, <3>2 DEF Step, HeldSet
      <4> QED
        BY <4>1 DEF HeldRight, Relaunch, Retiring
    <3> QED
      BY <1>2, <3>1, <3>2 DEF RetireKill
  <2>4. TablesMove
    BY <1>2, SeatStill DEF SeatBase, TablesTyped, RetireKill
  <2>5. seatFaults' \in Nat
    BY <1>2, SeatFaultTyped DEF SeatBase, RetireKill
  <2>6. pane' \in [Seats -> Nat]
    BY <1>2, <2>2 DEF SeatBase, HostTyped, RetireKill
  <2>7. MemoryTyped' /\ HostTyped'
    BY <1>2, <2>3, <2>5, <2>6 DEF SeatBase, MemoryTyped, HostTyped, RetireKill
  <2> QED
    BY <1>2, <2>3, <2>4, <2>7, SeatBaseHeld DEF RetireKill
<1>3. CASE RetireCommit
  <2>1. PICK s \in Seats : Retiring(s)
    BY <1>3 DEF SeatBase, HeldRight, RetireCommit, NoOp, Relaunch
  <2>2. held.l = s
    BY <2>1 DEF Retiring
  <2>3. HeldRight' /\ held' \in HeldSet
    BY <1>3, SeatIdleHeld DEF RetireCommit, Done
  <2>4. seat' \in [Seats -> SeatSet]
    <3>1. PICK x \in SeatSet : x = seat[s]
      BY DEF SeatBase, TablesTyped
    <3>2. PICK w \in SeatSet : w = [x EXCEPT !.status = "stopped"]
      BY SeatFields
    <3>3. [w EXCEPT !.retired = TRUE] \in SeatSet
      BY SeatFields
    <3>4. seat' = [seat EXCEPT ![s] = [w EXCEPT !.retired = TRUE]]
      BY <1>3, <2>2, <3>1, <3>2 DEF RetireCommit, SeatBase, TablesTyped
    <3> QED
      BY <3>3, <3>4 DEF SeatBase, TablesTyped
  <2>5. TablesMove
    BY <1>3, <2>2, <2>4, SeatFinal DEF SeatBase, RetireCommit
  <2>6. MemoryTyped' /\ HostTyped'
    BY <1>3, <2>3 DEF SeatBase, MemoryTyped, HostTyped, RetireCommit
  <2> QED
    BY <1>3, <2>3, <2>5, <2>6, SeatBaseHeld DEF RetireCommit
<1> QED
  BY <1>1, <1>2, <1>3

LEMMA SeatWorkerGoes ==
  ASSUME SeatBase, NEW s \in Seats, NEW pc \in {"exit", "look"}, WorkerGoes(s, pc)
  PROVE  /\ worker' \in [Seats -> WorkerSet]
         /\ \A t \in Seats : worker'[t] = worker[t] \/ worker'[t].pc \notin {"fence", "recover"}
  BY DEF WorkerGoes, SeatBase, MemoryTyped, WorkerSet

LEMMA SeatBaseKill ==
  ASSUME SeatBase, KillOld
  PROVE  BaseKept
<1>0. Relaunch
  BY DEF KillOld, Relaunch
<1>1. /\ held.l \in DOMAIN launch /\ launch[held.l] \in LaunchSet /\ Target \in Seats
      /\ RelaunchRight /\ seat[Target] \in SeatSet /\ Cred \in Nat
  BY <1>0, SeatTarget
<1> DEFINE s == Target
<1>2. seatFaults' \in Nat
  BY SeatFaultTyped DEF SeatBase, KillOld
<1>3. HostTyped'
  <2>1. pane' \in [Seats -> Nat]
    BY <1>1 DEF SeatBase, HostTyped, KillOld
  <2> QED
    BY <1>2, <2>1 DEF SeatBase, HostTyped, KillOld
<1>4. CASE /\ pane' = [pane EXCEPT ![s] = 0] /\ Step("start")
           /\ seat' = IF held.op = "restore" /\ prov[s] = "codex-fork"
                   THEN [seat EXCEPT ![s].cred = Cred] ELSE seat
           /\ UNCHANGED <<launch, rot, worker>>
  <2>1. /\ seat' \in [Seats -> SeatSet] /\ seat'[s].status = seat[s].status
        /\ seat'[s].retired = seat[s].retired /\ seat'[s].there = seat[s].there
    <3>1. PICK x \in SeatSet : x = seat[s]
      BY <1>1
    <3>2. PICK w \in SeatSet : w = [x EXCEPT !.cred = Cred]
      BY <1>1, SeatFields
    <3>3. w.status = x.status /\ w.retired = x.retired /\ w.there = x.there
      BY <3>2 DEF SeatSet
    <3>4. seat' = seat \/ seat' = [seat EXCEPT ![s] = w]
      BY <1>4, <3>1, <3>2 DEF SeatBase, TablesTyped
    <3> QED
      BY <1>1, <3>1, <3>3, <3>4 DEF SeatBase, TablesTyped
  <2>2. TablesMove
    BY <1>4, <2>1, SeatStill DEF SeatBase
  <2>3. HeldRight' /\ held' \in HeldSet
    BY <1>0, <1>4, <2>1, SeatStepHeld DEF KillOld
  <2>4. MemoryTyped'
    BY <1>4, <2>3 DEF SeatBase, MemoryTyped, KillOld
  <2> QED
    BY <1>3, <1>4, <2>2, <2>3, <2>4, SeatBaseHeld DEF KillOld
<1>5. CASE /\ Done
           /\ IF held.op = "restore" /\ prov[s] = "codex-fork"
              THEN MarkInconclusive(held.l) ELSE MarkFailed(held.l, Removes)
           /\ WorkerGoes(s, "exit")
  <2>1. TablesMove
    <3>1. CASE MarkInconclusive(held.l) /\ held.op = "restore"
      <4>1. launch[held.l].kind # "recredential"
        BY <1>1, <3>1 DEF RelaunchRight
      <4> QED
        BY <1>1, <3>1, <4>1, SeatInconclusive DEF SeatBase
    <3>2. CASE MarkFailed(held.l, Removes)
      <4>1. Removes \in BOOLEAN /\ (Removes => launch[held.l].kind # "recredential")
        BY DEF Removes
      <4> QED
        BY <1>1, <3>2, <4>1, SeatFails DEF SeatBase
    <3> QED
      BY <1>5, <3>1, <3>2
  <2>2. /\ worker' \in [Seats -> WorkerSet]
        /\ \A t \in Seats : worker'[t] = worker[t] \/ worker'[t].pc \notin {"fence", "recover"}
    BY <1>1, <1>5, SeatWorkerGoes
  <2>3. HeldRight' /\ held' \in HeldSet
    BY <1>5, SeatIdleHeld DEF Done
  <2>4. MemoryTyped'
    BY <2>2, <2>3 DEF SeatBase, MemoryTyped, KillOld
  <2> QED
    BY <1>3, <2>1, <2>2, <2>3, <2>4, SeatBaseHeld DEF KillOld
<1>6. CASE Done /\ UNCHANGED <<pane, seat, launch, rot, worker>>
  <2>1. TablesMove
    BY <1>6, SeatStill DEF SeatBase, TablesTyped
  <2>2. HeldRight' /\ held' \in HeldSet
    BY <1>6, SeatIdleHeld DEF Done
  <2>3. MemoryTyped'
    BY <1>6, <2>2 DEF SeatBase, MemoryTyped, KillOld
  <2> QED
    BY <1>3, <1>6, <2>1, <2>2, <2>3, SeatBaseHeld DEF KillOld
<1> QED
  BY <1>4, <1>5, <1>6 DEF KillOld

LEMMA SeatPcRelaunches ==
  ASSUME SeatBase, held.pc \in {"start", "verify", "wait", "check"}
  PROVE  Relaunch
  BY DEF SeatBase, HeldRight, Retiring, NoOp

\* The operation ends with its launch failed.
LEMMA SeatBaseFails ==
  ASSUME SeatBase, Relaunch, Done, MarkFailed(held.l, Removes),
         prov' = prov, serving' = serving, maker' = maker, clearer' = clearer, asker' = asker,
         HostTyped', worker' \in [Seats -> WorkerSet],
         \A t \in Seats : worker'[t] = worker[t] \/ worker'[t].pc \notin {"fence", "recover"}
  PROVE  BaseKept
<1>1. held.l \in DOMAIN launch
  BY SeatTarget
<1>2. Removes \in BOOLEAN /\ (Removes => launch[held.l].kind # "recredential")
  BY DEF Removes
<1>3. TablesMove
  BY <1>1, <1>2, SeatFails DEF SeatBase
<1>4. HeldRight' /\ held' \in HeldSet
  BY SeatIdleHeld DEF Done
<1>5. MemoryTyped'
  BY <1>4 DEF SeatBase, MemoryTyped
<1> QED
  BY <1>3, <1>4, <1>5, SeatBaseHeld

LEMMA SeatBaseStart ==
  ASSUME SeatBase, StartNew
  PROVE  BaseKept
<1>0. Relaunch
  BY SeatPcRelaunches DEF StartNew
<1>1. /\ held.l \in DOMAIN launch /\ launch[held.l] \in LaunchSet /\ Target \in Seats
      /\ RelaunchRight /\ seat[Target] \in SeatSet /\ Cred \in Nat
  BY <1>0, SeatTarget
<1> DEFINE s == Target
<1>2. seatFaults' \in Nat
  BY SeatFaultTyped DEF SeatBase, StartNew
<1>3. CASE /\ pane' = [pane EXCEPT ![s] = Cred]
           /\ conv' = [conv EXCEPT ![s] = IF Removes THEN threads + 1 ELSE launch[held.l].thread]
           /\ threads' = IF Removes THEN threads + 1 ELSE threads
           /\ Step(NextPc)
           /\ UNCHANGED <<seat, launch, rot, worker>>
  <2>1. TablesMove
    BY <1>3, SeatStill DEF SeatBase, TablesTyped
  <2>2. /\ NextPc \in {"verify", "check", "wait", "commit"}
        /\ NextPc = "verify" => held.op = "restore" /\ prov[Target] = "codex-fork"
        /\ NextPc = "check" => held.op = "rotate"
        /\ NextPc = "wait" => Removes
    BY DEF NextPc
  <2>3. HeldRight' /\ held' \in HeldSet
    <3>1. PICK pc \in {"kill", "start", "verify", "check", "wait", "commit"} : pc = NextPc
      BY <2>2
    <3> QED
      BY <1>0, <1>3, <2>2, <3>1, SeatStepHeld DEF StartNew
  <2>4. HostTyped'
    <3>1. launch[held.l].thread \in Nat
      BY <1>1 DEF LaunchSet
    <3>2. threads' \in Nat /\ pane' \in [Seats -> Nat]
      BY <1>1, <1>3 DEF SeatBase, HostTyped
    <3>3. PICK c \in Nat : c = IF Removes THEN threads + 1 ELSE launch[held.l].thread
      BY <3>1 DEF SeatBase, HostTyped
    <3>4. conv' \in [Seats -> Nat]
      BY <1>1, <1>3, <3>3 DEF SeatBase, HostTyped
    <3> QED
      BY <1>2, <3>2, <3>4 DEF SeatBase, HostTyped, StartNew
  <2>5. MemoryTyped'
    BY <1>3, <2>3 DEF SeatBase, MemoryTyped, StartNew
  <2> QED
    BY <1>3, <2>1, <2>3, <2>4, <2>5, SeatBaseHeld DEF StartNew
<1>4. CASE /\ MarkFailed(held.l, Removes)
           /\ WorkerGoes(s, "exit") /\ Done
           /\ UNCHANGED <<pane, conv, threads>>
  <2>1. HostTyped'
    BY <1>2, <1>4 DEF SeatBase, HostTyped, StartNew
  <2>2. /\ worker' \in [Seats -> WorkerSet]
        /\ \A t \in Seats : worker'[t] = worker[t] \/ worker'[t].pc \notin {"fence", "recover"}
    BY <1>1, <1>4, SeatWorkerGoes
  <2> QED
    BY <1>0, <1>4, <2>1, <2>2, SeatBaseFails DEF StartNew
<1> QED
  BY <1>3, <1>4 DEF StartNew

LEMMA SeatBaseVerify ==
  ASSUME SeatBase, Verify
  PROVE  BaseKept
<1>0. Relaunch
  BY SeatPcRelaunches DEF Verify
<1>1. /\ held.l \in DOMAIN launch /\ launch[held.l] \in LaunchSet /\ Target \in Seats
      /\ RelaunchRight /\ seat[Target] \in SeatSet /\ Cred \in Nat
  BY <1>0, SeatTarget
<1> DEFINE s == Target
<1>2. seatFaults' \in Nat
  BY SeatFaultTyped DEF SeatBase, Verify
<1>3. HostTyped'
  <2>1. pane' \in [Seats -> Nat]
    BY <1>1 DEF SeatBase, HostTyped, Verify
  <2> QED
    BY <1>2, <2>1 DEF SeatBase, HostTyped, Verify
<1>4. CASE Step("commit") /\ UNCHANGED <<seat, launch, rot, pane>>
  <2>1. TablesMove
    BY <1>4, SeatStill DEF SeatBase, TablesTyped
  <2>2. HeldRight' /\ held' \in HeldSet
    BY <1>0, <1>4, SeatStepHeld DEF Verify
  <2>3. MemoryTyped'
    BY <2>2 DEF SeatBase, MemoryTyped, Verify
  <2> QED
    BY <1>3, <2>1, <2>2, <2>3, SeatBaseHeld DEF Verify
<1>5. CASE MarkFailed(held.l, Removes) /\ Done
  BY <1>0, <1>3, <1>5, SeatBaseFails DEF Verify, SeatBase, MemoryTyped
<1>6. CASE held.pc = "verify" /\ MarkInconclusive(held.l) /\ Done
  <2>1. launch[held.l].kind # "recredential"
    BY <1>1, <1>6 DEF RelaunchRight
  <2>2. TablesMove
    BY <1>1, <1>6, <2>1, SeatInconclusive DEF SeatBase
  <2>3. HeldRight' /\ held' \in HeldSet
    BY <1>6, SeatIdleHeld DEF Done
  <2>4. MemoryTyped'
    BY <2>3 DEF SeatBase, MemoryTyped, Verify
  <2> QED
    BY <1>3, <2>2, <2>3, <2>4, SeatBaseHeld DEF Verify
<1> QED
  BY <1>4, <1>5, <1>6 DEF Verify

LEMMA SeatBaseCheck ==
  ASSUME SeatBase, CheckRotated
  PROVE  BaseKept
<1>0. Relaunch /\ held.pc = "check"
  BY SeatPcRelaunches DEF CheckRotated
<1>1. /\ held.l \in DOMAIN launch /\ launch[held.l] \in LaunchSet /\ Target \in Seats
      /\ RelaunchRight /\ seat[Target] \in SeatSet /\ Cred \in Nat
  BY <1>0, SeatTarget
<1> DEFINE s == Target
<1>2. seatFaults' \in Nat
  BY SeatFaultTyped DEF SeatBase, CheckRotated
<1>3. HostTyped'
  BY <1>2 DEF SeatBase, HostTyped, CheckRotated
<1>4. CASE Step("commit") /\ UNCHANGED <<seat, launch, rot, worker>>
  <2>1. TablesMove
    BY <1>4, SeatStill DEF SeatBase, TablesTyped
  <2>2. HeldRight' /\ held' \in HeldSet
    BY <1>0, <1>4, SeatStepHeld DEF CheckRotated
  <2>3. MemoryTyped'
    BY <1>4, <2>2 DEF SeatBase, MemoryTyped, CheckRotated
  <2> QED
    BY <1>3, <1>4, <2>1, <2>2, <2>3, SeatBaseHeld DEF CheckRotated
<1>5. CASE MarkFailed(held.l, FALSE) /\ WorkerGoes(s, "exit") /\ Done
  <2>1. Removes = FALSE
    BY <1>0, <1>1 DEF RelaunchRight, Removes
  <2>2. /\ worker' \in [Seats -> WorkerSet]
        /\ \A t \in Seats : worker'[t] = worker[t] \/ worker'[t].pc \notin {"fence", "recover"}
    BY <1>1, <1>5, SeatWorkerGoes
  <2> QED
    BY <1>0, <1>3, <1>5, <2>1, <2>2, SeatBaseFails DEF CheckRotated
<1>6. CASE WorkerGoes(s, "look") /\ Done /\ UNCHANGED <<seat, launch, rot>>
  <2>1. TablesMove
    BY <1>6, SeatStill DEF SeatBase, TablesTyped
  <2>2. HeldRight' /\ held' \in HeldSet
    BY <1>6, SeatIdleHeld DEF Done
  <2>3. /\ worker' \in [Seats -> WorkerSet]
        /\ \A t \in Seats : worker'[t] = worker[t] \/ worker'[t].pc \notin {"fence", "recover"}
    BY <1>1, <1>6, SeatWorkerGoes
  <2>4. MemoryTyped'
    BY <2>2, <2>3 DEF SeatBase, MemoryTyped, CheckRotated
  <2> QED
    BY <1>3, <2>1, <2>2, <2>3, <2>4, SeatBaseHeld DEF CheckRotated
<1> QED
  BY <1>4, <1>5, <1>6 DEF CheckRotated

LEMMA SeatBaseCommit ==
  ASSUME SeatBase, CommitLaunch
  PROVE  BaseKept
<1>0. Relaunch
  BY DEF CommitLaunch, Relaunch
<1>1. /\ held.l \in DOMAIN launch /\ launch[held.l] \in LaunchSet /\ Target \in Seats
      /\ RelaunchRight /\ seat[Target] \in SeatSet /\ Cred \in Nat
  BY <1>0, SeatTarget
<1> DEFINE s == Target
<1>2. PICK th \in Recovered :
       /\ seat' = [seat EXCEPT ![s].status = "running",
                              ![s].retired = @ /\ launch[held.l].kind # "restore",
                              ![s].thread = IF th = 0 THEN @ ELSE th]
       /\ clearer' = IF Removes /\ th = 0 /\ prov[s] = "codex"
                     THEN [clearer EXCEPT ![s] = [Asleep EXCEPT !.pc = "rebind"]] ELSE clearer
       /\ WorkerGoes(s, "exit")
  BY DEF CommitLaunch
<1>3. th \in Nat
  <2>1. launch[held.l].thread \in Nat /\ conv[s] \in Nat
    BY <1>1 DEF LaunchSet, SeatBase, HostTyped
  <2> QED
    BY <1>2, <2>1 DEF Recovered
<1>4. seat' \in [Seats -> SeatSet]
  <2>1. PICK x \in SeatSet : x = seat[s]
    BY <1>1
  <2>2. PICK a \in SeatSet : a = [x EXCEPT !.status = "running"]
    BY SeatFields
  <2>3. PICK b \in BOOLEAN : b = (a.retired /\ launch[held.l].kind # "restore")
    OBVIOUS
  <2>4. PICK d \in SeatSet : d = [a EXCEPT !.retired = b]
    BY SeatFields
  <2>5. PICK c \in Nat : c = IF th = 0 THEN d.thread ELSE th
    BY <1>3 DEF SeatSet
  <2>6. PICK e \in SeatSet : e = [d EXCEPT !.thread = c]
    BY SeatFields
  <2>7. seat' = [seat EXCEPT ![s] = e]
    BY <1>2, <2>1, <2>2, <2>3, <2>4, <2>5, <2>6 DEF SeatBase, TablesTyped
  <2>8. seat \in [Seats -> SeatSet]
    BY DEF SeatBase, TablesTyped
  <2> HIDE DEF s
  <2> QED
    BY <2>7, <2>8
<1>5. TablesMove
  <2>1. launch[held.l].kind = "recredential" => launch[held.l].status = "launching"
    BY <1>1 DEF RelaunchRight
  <2>2. TablesTyped /\ Backing
    BY DEF SeatBase
  <2>3. MarkApplied(held.l)
    BY DEF CommitLaunch
  <2> QED
    BY <1>1, <1>4, <2>1, <2>2, <2>3, SeatApplies
<1>6. HeldRight' /\ held' \in HeldSet
  BY SeatIdleHeld DEF CommitLaunch, Done
<1>7. /\ worker' \in [Seats -> WorkerSet]
      /\ \A t \in Seats : worker'[t] = worker[t] \/ worker'[t].pc \notin {"fence", "recover"}
  BY <1>1, <1>2, SeatWorkerGoes
<1>8. clearer' \in [Seats -> ClearerSet]
  <2>1. [Asleep EXCEPT !.pc = "rebind"] \in ClearerSet
    BY DEF Asleep, ClearerSet
  <2> QED
    BY <1>1, <1>2, <2>1 DEF SeatBase, MemoryTyped
<1>9. MemoryTyped' /\ HostTyped'
  BY <1>6, <1>7, <1>8 DEF SeatBase, MemoryTyped, HostTyped, CommitLaunch
<1> QED
  BY <1>5, <1>6, <1>7, <1>9, SeatBaseHeld DEF CommitLaunch

\* A recovery, at startup or by the worker of a rotation
LEMMA SeatBaseRecover ==
  ASSUME SeatBase, held = NoOp, NEW l \in DOMAIN launch, launch[l].status = "launching",
         serving => launch[l].kind = "recredential", Recover(l),
         UNCHANGED <<prov, conv, maker, clearer, asker, serving, threads, seatCrashes>>
  PROVE  BaseKept
<1>0. launch[l] \in LaunchSet /\ launch[l].seat \in Seats
  BY SeatRowTypes DEF SeatBase, LaunchSet
<1> DEFINE s == launch[l].seat
<1>1. seatFaults' \in Nat
  BY SeatFaultTyped DEF SeatBase, Recover
<1>2. CASE /\ MarkFailed(l, MayHaveSpoken(l) /\ launch[l].kind = "create")
           /\ WorkerGoes(s, "exit") /\ UNCHANGED <<held, pane, creds>>
  <2>1. TablesMove
    <3>1. PICK b \in BOOLEAN : b = (MayHaveSpoken(l) /\ launch[l].kind = "create")
      OBVIOUS
    <3>2. b => launch[l].kind # "recredential"
      BY <3>1
    <3>3. MarkFailed(l, b)
      BY <1>2, <3>1
    <3> QED
      BY <3>2, <3>3, SeatFails DEF SeatBase
  <2>2. /\ worker' \in [Seats -> WorkerSet]
        /\ \A t \in Seats : worker'[t] = worker[t] \/ worker'[t].pc \notin {"fence", "recover"}
    BY <1>0, <1>2, SeatWorkerGoes
  <2>3. MemoryTyped' /\ HostTyped'
    BY <1>1, <1>2, <2>2 DEF SeatBase, MemoryTyped, HostTyped
  <2> QED
    BY <1>2, <2>1, <2>2, <2>3, SeatIdleHeld, SeatBaseHeld
<1>3. CASE /\ ForkRestore(l)
           /\ \/ pane' = [pane EXCEPT ![s] = 0] /\ MarkFailed(l, FALSE)
              \/ pane' = pane /\ MarkInconclusive(l)
           /\ WorkerGoes(s, "exit") /\ UNCHANGED <<held, creds>>
  <2>1. TablesMove
    <3>1. launch[l].kind # "recredential"
      BY <1>3 DEF ForkRestore
    <3> QED
      BY <1>3, <3>1, SeatFails, SeatInconclusive DEF SeatBase
  <2>2. /\ worker' \in [Seats -> WorkerSet]
        /\ \A t \in Seats : worker'[t] = worker[t] \/ worker'[t].pc \notin {"fence", "recover"}
    BY <1>0, <1>3, SeatWorkerGoes
  <2>3. pane' \in [Seats -> Nat]
    <3>1. pane' = pane \/ pane' = [pane EXCEPT ![s] = 0]
      BY <1>3
    <3> QED
      BY <1>0, <3>1 DEF SeatBase, HostTyped
  <2>4. MemoryTyped' /\ HostTyped'
    BY <1>1, <1>3, <2>2, <2>3 DEF SeatBase, MemoryTyped, HostTyped
  <2> QED
    BY <1>3, <2>1, <2>2, <2>4, SeatIdleHeld, SeatBaseHeld
<1>4. CASE /\ Recoverable(l) /\ Reissue(l) /\ held' = Op("recover", l, "kill")
           /\ UNCHANGED <<rot, worker, pane>>
  <2>1. /\ TablesMove /\ DOMAIN launch' = DOMAIN launch
        /\ \A i \in DOMAIN launch : launch'[i].status = launch[i].status
    BY <1>4, SeatReissued DEF SeatBase, HostTyped
  <2>2. /\ l \in DOMAIN launch' /\ launch'[l].status = "launching"
        /\ launch'[l].kind = launch[l].kind /\ launch'[l].seat = s
    BY <2>1 DEF TablesMove, LaunchKept
  <2>3. /\ held'.op = "recover" /\ held'.l = l /\ held'.pc = "kill" /\ held' \in HeldSet
    <3>1. l \in Nat
      BY SeatRowTypes DEF SeatBase
    <3> QED
      BY <1>4, <3>1 DEF Op, HeldSet
  <2>4. /\ seat'[s].status = "stopped" /\ seat'[s].there = seat[s].there
        /\ seat'[s].retired = seat[s].retired
    BY <1>0, <1>4 DEF Reissue, SeatBase, TablesTyped, SeatSet
  <2>5. seat[s].there /\ (seat[s].retired => launch[l].kind = "restore")
    BY <1>4 DEF Recoverable
  <2>6. Target' = s
    BY <2>2, <2>3 DEF Target
  <2>7. RelaunchRight'
    <3>1. IsStopped(Target)' /\ seat'[Target'].there
          /\ (seat'[Target'].retired => launch[l].kind = "restore")
      BY <2>4, <2>5, <2>6 DEF IsStopped
    <3> QED
      BY <2>2, <2>3, <3>1 DEF RelaunchRight
  <2>8. HeldRight'
    BY <2>3, <2>7 DEF HeldRight, Relaunch
  <2>9. MemoryTyped' /\ HostTyped'
    <3>1. creds' \in Nat
      BY <1>4 DEF Reissue, SeatBase, HostTyped
    <3> QED
      BY <1>1, <1>4, <2>3, <3>1 DEF SeatBase, MemoryTyped, HostTyped
  <2> QED
    BY <1>4, <2>1, <2>8, <2>9, SeatBaseHeld
<1> QED
  BY <1>2, <1>3, <1>4 DEF Recover

LEMMA SeatBaseStartup ==
  ASSUME SeatBase, StartupRecover \/ StartupDone \/ Crash
  PROVE  BaseKept
<1>1. CASE StartupRecover
  <2>1. Unfinished \subseteq DOMAIN launch /\ Unfinished \subseteq Nat /\ Unfinished # {}
    BY <1>1, SeatRowTypes DEF SeatBase, StartupRecover, Unfinished
  <2>2. PICK l \in Unfinished : l = Min(Unfinished)
    BY <2>1, SeatLeast
  <2>3. l \in DOMAIN launch /\ launch[l].status = "launching" /\ Recover(l)
    BY <1>1, <2>2 DEF StartupRecover, Unfinished
  <2> QED
    BY <1>1, <2>3, SeatBaseRecover DEF StartupRecover
<1>2. CASE StartupDone
  <2>1. TablesMove
    BY <1>2, SeatStill DEF SeatBase, TablesTyped, StartupDone
  <2>2. worker' \in [Seats -> WorkerSet] /\ \A s \in Seats : worker'[s].pc \notin {"fence", "recover"}
    <3>1. Asleep \in WorkerSet /\ [Asleep EXCEPT !.pc = "look"] \in WorkerSet
          /\ Asleep.pc = "none" /\ [Asleep EXCEPT !.pc = "look"].pc = "look"
      BY DEF Asleep, WorkerSet
    <3>2. \A s \in Seats : worker'[s] = Asleep \/ worker'[s] = [Asleep EXCEPT !.pc = "look"]
      BY <1>2 DEF StartupDone
    <3>3. worker' \in [Seats -> WorkerSet]
      BY <1>2, <3>1 DEF StartupDone
    <3> QED
      BY <3>1, <3>2, <3>3
  <2>3. MemoryTyped' /\ HostTyped'
    BY <1>2, <2>2 DEF SeatBase, MemoryTyped, HostTyped, StartupDone
  <2>4. \A s \in Seats : maker'[s].pc = "none"
    BY <1>2 DEF SeatBase, MakerRight, StartupDone
  <2>5. HeldRight'
    BY <1>2, SeatIdleHeld DEF StartupDone
  <2>6. MakerRight'
    BY <2>4 DEF MakerRight
  <2>7. WorkerRight'
    BY <2>2 DEF WorkerRight
  <2> QED
    BY <2>1, <2>3, <2>5, <2>6, <2>7 DEF SeatBase, BaseKept, TablesMove
<1>3. CASE Crash
  <2>1. TablesMove
    BY <1>3, SeatStill DEF SeatBase, TablesTyped, Crash
  <2>2. HeldRight' /\ held' \in HeldSet
    BY <1>3, SeatIdleHeld DEF Crash
  <2>3. MemoryTyped'
    BY <1>3, <2>2 DEF MemoryTyped, Crash, MakerSet, ClearerSet, WorkerSet, Asleep
  <2>4. HostTyped'
    BY <1>3 DEF SeatBase, HostTyped, Crash
  <2>5. MakerRight' /\ WorkerRight'
    BY <1>3 DEF Crash, MakerRight, WorkerRight, Asleep
  <2> QED
    BY <2>1, <2>2, <2>3, <2>4, <2>5 DEF SeatBase, BaseKept, TablesMove
<1> QED
  BY <1>1, <1>2, <1>3

LEMMA SeatMissing ==
  ASSUME SeatBase, NEW s \in Seats, MarkMissing(s)
  PROVE  TablesMove
<1>1. seat' \in [Seats -> SeatSet]
  BY SeatFields DEF MarkMissing, SeatBase, TablesTyped
<1> QED
  BY <1>1, SeatFinal DEF SeatBase, MarkMissing

LEMMA SeatBaseRequest ==
  ASSUME SeatBase, NEW s \in Seats, RequestRotation(s)
  PROVE  BaseKept
<1>1. TablesMove
  <2>1. CASE rot' = FinalRot(s) /\ launch' = FinalLaunch(s) /\ seat' = seat
    BY <2>1, SeatFinal DEF SeatBase, TablesTyped
  <2>2. CASE MarkMissing(s)
    BY <2>2, SeatMissing
  <2>3. CASE /\ \A r \in DOMAIN rot : rot[r].seat = s => rot[r].status = "failed"
             /\ rot' = Append(rot, [seat |-> s, status |-> "waiting_idle", launch |-> 0,
                                    thread |-> seat[s].thread])
             /\ seat' = [seat EXCEPT ![s].proof = FALSE]
             /\ launch' = launch
    <3> DEFINE z == [seat |-> s, status |-> "waiting_idle", launch |-> 0, thread |-> seat[s].thread]
    <3>1. seat' \in [Seats -> SeatSet]
      BY <2>3, SeatFields DEF SeatBase, TablesTyped
    <3>2. z \in RotSet /\ z.status = "waiting_idle" /\ z.seat = s
      BY DEF RotSet, SeatBase, TablesTyped, SeatSet
    <3>3. rot' = Append(rot, z)
      BY <2>3
    <3> HIDE DEF z
    <3> QED
      BY <2>3, <3>1, <3>2, <3>3, SeatRequested DEF SeatBase
  <2> QED
    BY <2>1, <2>2, <2>3 DEF RequestRotation
<1>2. MemoryTyped' /\ HostTyped'
  BY DEF SeatBase, MemoryTyped, HostTyped, RequestRotation
<1> QED
  BY <1>1, <1>2, SeatBaseHeld, SeatIdleHeld DEF RequestRotation, GuardFree

LEMMA SeatBaseWorkerAside ==
  ASSUME SeatBase, NEW s \in Seats, StartWorker(s) \/ WorkerExit(s)
  PROVE  BaseKept
<1>1. /\ worker' \in [Seats -> WorkerSet]
      /\ \A t \in Seats : worker'[t] = worker[t] \/ worker'[t].pc \notin {"fence", "recover"}
  BY DEF StartWorker, WorkerExit, SeatBase, MemoryTyped, WorkerSet, Asleep
<1>2. MemoryTyped' /\ HostTyped'
  BY <1>1 DEF SeatBase, MemoryTyped, HostTyped, StartWorker, WorkerExit
<1>3. UNCHANGED <<prov, seat, launch, rot, held, serving, maker>>
  BY DEF StartWorker, WorkerExit
<1> QED
  BY <1>1, <1>2, <1>3, SeatBaseAside

LEMMA SeatBaseLook ==
  ASSUME SeatBase, NEW s \in Seats, WorkerLook(s)
  PROVE  BaseKept
<1> DEFINE waits == RotationsIn(s, "waiting_idle")
           again == Interrupted(s)
<1>0. GuardFree /\ UNCHANGED <<prov, seat, launch, rot, pane, conv, held, maker, clearer, asker, serving,
                 creds, threads, seatCrashes, seatFaults>>
  BY DEF WorkerLook
<1>1. /\ waits \subseteq DOMAIN rot /\ again \subseteq DOMAIN rot /\ DOMAIN rot \subseteq Nat
      /\ \A r \in waits \cup again : rot[r].seat = s
      /\ \A r \in again : rot[r].status = "relaunching"
  BY SeatRowTypes DEF SeatBase, RotationsIn, Interrupted
<1>2. PICK w : /\ worker' = [worker EXCEPT ![s] = w]
               /\ \/ /\ again # {}
                     /\ w = [pc |-> "recover", l |-> rot[Min(again)].launch, th |-> 0]
                  \/ w = [Asleep EXCEPT !.pc = "exit"]
                  \/ /\ waits # {}
                     /\ \E pc \in {"final", "missing", "fence", "look"} :
                          w = [pc |-> pc, l |-> Min(waits), th |-> 0]
  BY DEF WorkerLook
<1> HIDE DEF waits, again
<1>3. w \in WorkerSet /\ (w.pc = "fence" => w.l \in DOMAIN rot /\ rot[w.l].seat = s)
      /\ (w.pc = "recover" => w.l \in DOMAIN launch /\ launch[w.l].kind = "recredential"
                              /\ launch[w.l].seat = s)
  <2>1. CASE again # {} /\ w = [pc |-> "recover", l |-> rot[Min(again)].launch, th |-> 0]
    <3>1. PICK r \in again : r = Min(again)
      BY <1>1, <2>1, SeatLeast
    <3>2. r \in DOMAIN rot /\ rot[r].seat = s /\ rot[r].status = "relaunching" /\ r # 0
      BY <1>1, SeatRowTypes DEF SeatBase
    <3>3. /\ rot[r].launch \in DOMAIN launch /\ launch[rot[r].launch].rot = r
      BY <3>2 DEF SeatBase, Backing, BackedBy
    <3>4. launch[rot[r].launch].kind = "recredential"
      BY <3>2, <3>3 DEF SeatBase, Backing, BackedBy
    <3>5. launch[rot[r].launch].seat = s
      BY <3>2, <3>3, <3>4 DEF SeatBase, Backing, BackedBy
    <3>6. rot[r].launch \in Nat
      BY <3>2, SeatRowTypes DEF SeatBase, RotSet
    <3> QED
      BY <2>1, <3>1, <3>3, <3>4, <3>5, <3>6 DEF WorkerSet
  <2>2. CASE w = [Asleep EXCEPT !.pc = "exit"]
    BY <2>2 DEF Asleep, WorkerSet
  <2>3. CASE waits # {} /\ \E pc \in {"final", "missing", "fence", "look"} :
                          w = [pc |-> pc, l |-> Min(waits), th |-> 0]
    <3>1. PICK r \in waits : r = Min(waits)
      BY <1>1, <2>3, SeatLeast
    <3> QED
      BY <1>1, <2>3, <3>1 DEF WorkerSet
  <2> QED
    BY <1>2, <2>1, <2>2, <2>3
<1>4. worker' \in [Seats -> WorkerSet] /\ worker'[s] = w /\ \A t \in Seats : t # s => worker'[t] = worker[t]
  BY <1>2, <1>3 DEF SeatBase, MemoryTyped
<1>5. WorkerRight'
  BY <1>0, <1>3, <1>4 DEF SeatBase, WorkerRight
<1>6. TablesMove
  BY <1>0, SeatStill DEF SeatBase, TablesTyped
<1>7. MemoryTyped' /\ HostTyped'
  BY <1>0, <1>4 DEF SeatBase, MemoryTyped, HostTyped
<1>8. HeldRight' /\ MakerRight'
  BY <1>0, <1>6, SeatAsideHeld, SeatMakers DEF SeatBase
<1> QED
  BY <1>5, <1>6, <1>7, <1>8 DEF SeatBase, BaseKept, TablesMove

LEMMA SeatBaseFinal ==
  ASSUME SeatBase, NEW s \in Seats, WorkerFinal(s)
  PROVE  BaseKept
<1>1. seat' \in [Seats -> SeatSet]
  BY SeatFields DEF SeatBase, TablesTyped, WorkerFinal
<1>2. TablesMove
  BY <1>1, SeatFinal DEF SeatBase, WorkerFinal
<1>3. /\ worker' \in [Seats -> WorkerSet]
      /\ \A t \in Seats : worker'[t] = worker[t] \/ worker'[t].pc \notin {"fence", "recover"}
  BY DEF WorkerFinal, SeatBase, MemoryTyped, WorkerSet, Asleep
<1>4. MemoryTyped' /\ HostTyped'
  BY <1>3 DEF SeatBase, MemoryTyped, HostTyped, WorkerFinal
<1> QED
  BY <1>2, <1>3, <1>4, SeatBaseHeld, SeatIdleHeld DEF WorkerFinal, GuardFree

\* The rotation begins: its launch is recorded and the seat is stopped, with the new credential.
RotationBegins(s, r) ==
  /\ rot[r].status = "waiting_idle" /\ LiveSeat(s) /\ seat[s].thread = rot[r].thread
  /\ pane[s] # 0 /\ IdleProof(s)
  /\ launch' = Append(launch, LaunchRecord("recredential", s, rot[r].thread, r, FALSE))
  /\ rot' = [rot EXCEPT ![r].status = "relaunching", ![r].launch = Len(launch) + 1]
  /\ seat' = [seat EXCEPT ![s].status = "stopped", ![s].cred = creds + 1]
  /\ creds' = creds + 1
  /\ held' = Op("rotate", Len(launch) + 1, "kill")
  /\ worker' = [worker EXCEPT ![s] = [Asleep EXCEPT !.pc = "busy"]]

LEMMA SeatFenceCases ==
  ASSUME NEW s \in Seats, WorkerFence(s)
  PROVE  /\ GuardFree /\ worker[s].pc = "fence" /\ clearer[s].pc \in {"none", "rebind"}
         /\ UNCHANGED <<prov, pane, conv, maker, clearer, asker, serving, threads, seatCrashes,
                        seatFaults>>
         /\ \/ RotationBegins(s, worker[s].l)
            \/ /\ UNCHANGED <<held, creds>>
               /\ \/ worker' = [worker EXCEPT ![s] = [Asleep EXCEPT !.pc = "exit"]]
                  \/ worker' = [worker EXCEPT ![s] = [Asleep EXCEPT !.pc = "look"]]
               /\ \/ UNCHANGED <<seat, launch, rot>>
                  \/ MarkMissing(s)
                  \/ rot' = FinalRot(s) /\ launch' = FinalLaunch(s) /\ seat' = seat
                  \/ /\ rot[worker[s].l].status = "waiting_idle"
                     /\ rot' = [rot EXCEPT ![worker[s].l].status = "failed"]
                     /\ UNCHANGED <<seat, launch>>
  BY DEF WorkerFence, FencesFree, RotationBegins

LEMMA SeatFenceFacts ==
  ASSUME SeatBase, NEW s \in Seats, worker[s].pc = "fence", RotationBegins(s, worker[s].l)
  PROVE  LET n == Len(launch) + 1
             y == LaunchRecord("recredential", s, rot[worker[s].l].thread, worker[s].l, FALSE) IN
         /\ TablesMove
         /\ launch'[n] = y /\ n \in DOMAIN launch' /\ n \in Nat /\ n \notin DOMAIN launch
         /\ \A i \in DOMAIN launch' : i \in DOMAIN launch \/ i = n
         /\ \A i \in DOMAIN launch : launch'[i] = launch[i]
         /\ y.seat = s /\ y.kind = "recredential" /\ y.cred = creds + 1 /\ y.status = "launching"
         /\ y.thread = rot[worker[s].l].thread /\ y.thread \in Nat
         /\ held'.op = "rotate" /\ held'.l = n /\ held'.pc = "kill" /\ held' \in HeldSet
         /\ seat' \in [Seats -> SeatSet]
         /\ seat'[s].status = "stopped" /\ seat'[s].cred = creds + 1 /\ seat'[s].there
         /\ ~seat'[s].retired
         /\ \A t \in Seats : t # s => seat'[t] = seat[t]
<1> DEFINE n == Len(launch) + 1
           r == worker[s].l
           y == LaunchRecord("recredential", s, rot[r].thread, r, FALSE)
<1>1. r \in DOMAIN rot /\ rot[r].seat = s
  BY DEF SeatBase, WorkerRight
<1>2. rot[r] \in RotSet /\ r \in Nat /\ creds + 1 \in Nat
  BY <1>1, SeatRowTypes DEF SeatBase, HostTyped
<1>3. /\ y \in LaunchSet /\ y.seat = s /\ y.kind = "recredential" /\ y.cred = creds + 1
      /\ y.status = "launching" /\ y.rot = r /\ y.thread = rot[r].thread /\ y.thread \in Nat
  <2>1. rot[r].thread \in Nat
    BY <1>2 DEF RotSet
  <2> HIDE DEF r
  <2> QED
    BY <1>2, <2>1 DEF LaunchRecord, LaunchSet
<1>4. /\ launch' = Append(launch, y)
      /\ rot' = [rot EXCEPT ![r].status = "relaunching", ![r].launch = Len(launch) + 1]
      /\ rot[r].status = "waiting_idle"
  BY DEF RotationBegins
<1>5. /\ seat' \in [Seats -> SeatSet]
      /\ seat'[s].status = "stopped" /\ seat'[s].cred = creds + 1
      /\ seat'[s].there = seat[s].there /\ seat'[s].retired = seat[s].retired
      /\ \A t \in Seats : t # s => seat'[t] = seat[t]
  <2>1. PICK x \in SeatSet : x = seat[s]
    BY DEF SeatBase, TablesTyped
  <2>2. PICK w \in SeatSet : w = [x EXCEPT !.status = "stopped"]
    BY SeatFields
  <2>3. PICK c \in Nat : c = creds + 1
    BY <1>2
  <2>4. PICK z \in SeatSet : z = [w EXCEPT !.cred = c]
    BY SeatFields
  <2>5. z.status = "stopped" /\ z.cred = c /\ z.there = x.there /\ z.retired = x.retired
    BY <2>2, <2>4 DEF SeatSet
  <2>6. seat' = [seat EXCEPT ![s] = z]
    BY <2>1, <2>2, <2>3, <2>4 DEF SeatBase, TablesTyped, RotationBegins
  <2> QED
    BY <2>1, <2>3, <2>5, <2>6 DEF SeatBase, TablesTyped
<1>5a. seat[s].there /\ ~seat[s].retired
  BY DEF RotationBegins, LiveSeat, IsStopped
<1> HIDE DEF y, r
<1>6. TablesMove
  BY <1>1, <1>3, <1>4, <1>5, SeatRelaunched DEF SeatBase
<1>7. /\ launch'[n] = y /\ n \in DOMAIN launch' /\ n \in Nat /\ n \notin DOMAIN launch
      /\ \A i \in DOMAIN launch' : i \in DOMAIN launch \/ i = n
      /\ \A i \in DOMAIN launch : launch'[i] = launch[i]
  BY <1>3, <1>4, SeatAppends DEF SeatBase, TablesTyped
<1>8. held'.op = "rotate" /\ held'.l = n /\ held'.pc = "kill" /\ held' \in HeldSet
  BY <1>7 DEF RotationBegins, Op, HeldSet
<1>9. seat'[s].there /\ ~seat'[s].retired
  BY <1>5, <1>5a
<1> QED
  BY <1>3, <1>5, <1>6, <1>7, <1>8, <1>9 DEF y, r

LEMMA SeatBaseFence ==
  ASSUME SeatBase, NEW s \in Seats, WorkerFence(s)
  PROVE  BaseKept
<1>0. /\ GuardFree /\ worker[s].pc = "fence"
      /\ UNCHANGED <<prov, pane, conv, maker, clearer, asker, serving, threads, seatCrashes, seatFaults>>
  BY SeatFenceCases
<1>1. CASE RotationBegins(s, worker[s].l)
  <2> DEFINE n == Len(launch) + 1
             y == LaunchRecord("recredential", s, rot[worker[s].l].thread, worker[s].l, FALSE)
  <2>1. /\ TablesMove
        /\ launch'[n] = y /\ n \in DOMAIN launch'
        /\ y.seat = s /\ y.kind = "recredential" /\ y.status = "launching"
        /\ held'.op = "rotate" /\ held'.l = n /\ held'.pc = "kill" /\ held' \in HeldSet
        /\ seat'[s].status = "stopped" /\ seat'[s].there /\ ~seat'[s].retired
    BY <1>0, <1>1, SeatFenceFacts
  <2> HIDE DEF n, y
  <2>2. Target' = s
    BY <2>1 DEF Target
  <2>3. RelaunchRight'
    <3>1. IsStopped(Target)' /\ seat'[Target'].there /\ ~seat'[Target'].retired
      BY <2>1, <2>2 DEF IsStopped
    <3> QED
      BY <2>1, <3>1 DEF RelaunchRight
  <2>4. HeldRight'
    BY <2>1, <2>3 DEF HeldRight, Relaunch
  <2>5. /\ worker' \in [Seats -> WorkerSet]
        /\ \A t \in Seats : worker'[t] = worker[t] \/ worker'[t].pc \notin {"fence", "recover"}
    BY <1>1 DEF RotationBegins, SeatBase, MemoryTyped, WorkerSet, Asleep
  <2>6. creds' \in Nat
    BY <1>1 DEF RotationBegins, SeatBase, HostTyped
  <2>7. MemoryTyped' /\ HostTyped'
    BY <1>0, <2>1, <2>5, <2>6 DEF SeatBase, MemoryTyped, HostTyped
  <2> QED
    BY <1>0, <2>1, <2>4, <2>5, <2>7, SeatBaseHeld
<1>2. CASE /\ UNCHANGED <<held, creds>>
           /\ \/ worker' = [worker EXCEPT ![s] = [Asleep EXCEPT !.pc = "exit"]]
              \/ worker' = [worker EXCEPT ![s] = [Asleep EXCEPT !.pc = "look"]]
           /\ \/ UNCHANGED <<seat, launch, rot>>
              \/ MarkMissing(s)
              \/ rot' = FinalRot(s) /\ launch' = FinalLaunch(s) /\ seat' = seat
              \/ /\ rot[worker[s].l].status = "waiting_idle"
                 /\ rot' = [rot EXCEPT ![worker[s].l].status = "failed"]
                 /\ UNCHANGED <<seat, launch>>
  <2>1. TablesMove
    <3>1. seat \in [Seats -> SeatSet] /\ worker[s].l \in DOMAIN rot
      BY <1>0 DEF SeatBase, TablesTyped, WorkerRight
    <3>2. CASE UNCHANGED <<seat, launch, rot>>
      BY <3>1, <3>2, SeatStill DEF SeatBase
    <3>3. CASE MarkMissing(s)
      BY <3>3, SeatMissing
    <3>4. CASE rot' = FinalRot(s) /\ launch' = FinalLaunch(s) /\ seat' = seat
      BY <3>1, <3>4, SeatFinal DEF SeatBase
    <3>5. CASE /\ rot[worker[s].l].status = "waiting_idle"
               /\ rot' = [rot EXCEPT ![worker[s].l].status = "failed"]
               /\ UNCHANGED <<seat, launch>>
      BY <3>1, <3>5, SeatGivesUp DEF SeatBase
    <3> QED
      BY <1>2, <3>2, <3>3, <3>4, <3>5
  <2>2. /\ worker' \in [Seats -> WorkerSet]
        /\ \A t \in Seats : worker'[t] = worker[t] \/ worker'[t].pc \notin {"fence", "recover"}
    BY <1>2 DEF SeatBase, MemoryTyped, WorkerSet, Asleep
  <2>3. MemoryTyped' /\ HostTyped'
    BY <1>0, <1>2, <2>2 DEF SeatBase, MemoryTyped, HostTyped
  <2> QED
    BY <1>0, <1>2, <2>1, <2>2, <2>3, SeatBaseHeld, SeatIdleHeld DEF GuardFree
<1> QED
  BY <1>1, <1>2, SeatFenceCases

LEMMA SeatBaseWorkerRecover ==
  ASSUME SeatBase, NEW s \in Seats, WorkerRecover(s)
  PROVE  BaseKept
<1> DEFINE l == worker[s].l
<1>0. /\ GuardFree /\ l \in DOMAIN launch /\ launch[l].kind = "recredential" /\ launch[l].seat = s
  BY DEF WorkerRecover, SeatBase, WorkerRight
<1>1. CASE launch[l].status = "launching"
  BY <1>0, <1>1, SeatBaseRecover DEF WorkerRecover, GuardFree
<1>2. CASE launch[l].status # "launching"
  <2>1. /\ worker' = [worker EXCEPT ![s].pc = "exit"]
        /\ UNCHANGED <<seat, launch, rot, pane, held, creds, seatFaults>>
        /\ UNCHANGED <<prov, conv, maker, clearer, asker, serving, threads, seatCrashes>>
    BY <1>2 DEF WorkerRecover
  <2>2. /\ worker' \in [Seats -> WorkerSet]
        /\ \A t \in Seats : worker'[t] = worker[t] \/ worker'[t].pc \notin {"fence", "recover"}
    BY <2>1 DEF SeatBase, MemoryTyped, WorkerSet
  <2>3. MemoryTyped' /\ HostTyped'
    BY <2>1, <2>2 DEF SeatBase, MemoryTyped, HostTyped
  <2> QED
    BY <2>1, <2>2, <2>3, SeatBaseAside, SeatSameMaker DEF SeatBase
<1> QED
  BY <1>1, <1>2

LEMMA SeatBaseClear ==
  ASSUME SeatBase, NEW s \in Seats,
         ClearBegin(s) \/ ClearType(s) \/ ClearCommit(s) \/ BindCodex(s)
  PROVE  BaseKept
<1>1. CASE ClearBegin(s)
  <2>1. clearer' \in [Seats -> ClearerSet]
    BY <1>1 DEF ClearBegin, SeatBase, TablesTyped, SeatSet, MemoryTyped, ClearerSet
  <2>2. MemoryTyped' /\ HostTyped'
    BY <1>1, <2>1 DEF SeatBase, MemoryTyped, HostTyped, ClearBegin
  <2> QED
    BY <1>1, <2>2, SeatBaseAside, SeatSameMaker DEF SeatBase, ClearBegin
<1>2. CASE ClearType(s)
  <2>1. clearer' \in [Seats -> ClearerSet]
    BY <1>2 DEF ClearType, SeatBase, MemoryTyped, ClearerSet, Asleep
  <2>2. MemoryTyped' /\ HostTyped'
    BY <1>2, <2>1 DEF SeatBase, MemoryTyped, HostTyped, ClearType
  <2> QED
    BY <1>2, <2>2, SeatBaseAside, SeatSameMaker DEF SeatBase, ClearType
<1>3. CASE ClearCommit(s)
  <2>1. clearer' \in [Seats -> ClearerSet]
    <3>1. Asleep \in ClearerSet /\ [clearer[s] EXCEPT !.pc = "bind"] \in ClearerSet
      BY DEF SeatBase, MemoryTyped, ClearerSet, Asleep
    <3>2. clearer' = [clearer EXCEPT ![s] = Asleep]
          \/ clearer' = [clearer EXCEPT ![s] = [clearer[s] EXCEPT !.pc = "bind"]]
      BY <1>3 DEF ClearCommit, SeatBase, MemoryTyped
    <3> QED
      BY <3>1, <3>2 DEF SeatBase, MemoryTyped
  <2>2. seat' \in [Seats -> SeatSet]
    <3>1. PICK x \in SeatSet : x = seat[s]
      BY DEF SeatBase, TablesTyped
    <3>2. PICK b \in BOOLEAN : b = (x.proof \/ prov[s] = "codex-fork")
      OBVIOUS
    <3>3. PICK w \in SeatSet : w = [x EXCEPT !.thread = conv[s]]
      BY SeatFields DEF SeatBase, HostTyped
    <3>4. w.proof = x.proof
      BY <3>3 DEF SeatSet
    <3>5. [w EXCEPT !.proof = b] \in SeatSet /\ [x EXCEPT !.proof = b] \in SeatSet
      BY SeatFields
    <3>6. seat' = seat \/ seat' = [seat EXCEPT ![s] = [w EXCEPT !.proof = b]]
          \/ seat' = [seat EXCEPT ![s] = [x EXCEPT !.proof = b]]
      BY <1>3, <3>1, <3>2, <3>3, <3>4 DEF ClearCommit, SeatBase, TablesTyped
    <3> QED
      BY <3>5, <3>6 DEF SeatBase, TablesTyped
  <2>3. TablesMove
    BY <1>3, <2>2, SeatStill DEF SeatBase, ClearCommit
  <2>4. seatFaults' \in Nat
    BY <1>3, SeatFaultTyped DEF SeatBase, ClearCommit
  <2>5. MemoryTyped' /\ HostTyped'
    BY <1>3, <2>1, <2>4 DEF SeatBase, MemoryTyped, HostTyped, ClearCommit
  <2> QED
    BY <1>3, <2>3, <2>5, SeatBaseHeld, SeatIdleHeld DEF ClearCommit, GuardFree
<1>4. CASE BindCodex(s)
  <2>1. clearer' \in [Seats -> ClearerSet]
    BY <1>4 DEF BindCodex, SeatBase, MemoryTyped, ClearerSet, Asleep
  <2>2. seat' \in [Seats -> SeatSet]
    <3>1. PICK x \in SeatSet : x = seat[s]
      BY DEF SeatBase, TablesTyped
    <3>2. [x EXCEPT !.thread = conv[s]] \in SeatSet
      BY SeatFields DEF SeatBase, HostTyped
    <3>3. seat' = seat \/ seat' = [seat EXCEPT ![s] = [x EXCEPT !.thread = conv[s]]]
      BY <1>4, <3>1 DEF BindCodex, SeatBase, TablesTyped
    <3> QED
      BY <3>2, <3>3 DEF SeatBase, TablesTyped
  <2>3. TablesMove
    BY <1>4, <2>2, SeatStill DEF SeatBase, BindCodex
  <2>4. seatFaults' \in Nat
    BY <1>4, SeatFaultTyped DEF SeatBase, BindCodex
  <2>5. MemoryTyped' /\ HostTyped'
    BY <1>4, <2>1, <2>4 DEF SeatBase, MemoryTyped, HostTyped, BindCodex
  <2> QED
    BY <1>4, <2>3, <2>5, SeatBaseHeld, SeatIdleHeld DEF BindCodex, GuardFree
<1> QED
  BY <1>1, <1>2, <1>3, <1>4

LEMMA SeatBaseTurns ==
  ASSUME SeatBase, NEW s \in Seats,
         TurnEnds(s) \/ TurnStarts(s) \/ ForkExits(s) \/ SendMissing(s) \/ Revive(s) \/ PaneDies(s)
  PROVE  BaseKept
<1>0. PICK x \in SeatSet : x = seat[s]
  BY DEF SeatBase, TablesTyped
<1>1. CASE TurnEnds(s) \/ TurnStarts(s) \/ Revive(s)
  <2>1. /\ GuardFree
        /\ UNCHANGED <<prov, launch, rot, pane, conv, held, maker, clearer, asker, worker, serving,
                 creds, threads, seatCrashes, seatFaults>>
    BY <1>1 DEF TurnEnds, TurnStarts, Revive
  <2>2. PICK a \in SeatSet : a = [x EXCEPT !.status = "idle"]
    BY SeatFields
  <2>3. PICK b \in SeatSet : b = [a EXCEPT !.proof = TRUE]
    BY SeatFields
  <2>4. PICK c \in SeatSet : c = [b EXCEPT !.thread = conv[s]]
    BY SeatFields DEF SeatBase, HostTyped
  <2>5. PICK d \in SeatSet : d = [x EXCEPT !.status = "running"]
    BY SeatFields
  <2>5a. PICK e \in SeatSet : e = [d EXCEPT !.proof = TRUE]
    BY SeatFields
  <2>6. seat' \in [Seats -> SeatSet]
    <3>1. CASE TurnEnds(s)
      <4>1. seat' = [seat EXCEPT ![s] = c]
        BY <1>0, <2>2, <2>3, <2>4, <3>1 DEF TurnEnds, SeatBase, TablesTyped
      <4> QED
        BY <4>1 DEF SeatBase, TablesTyped
    <3>2. CASE TurnStarts(s)
      <4>1. seat' = [seat EXCEPT ![s] = e]
        BY <1>0, <2>5, <2>5a, <3>2 DEF TurnStarts, SeatBase, TablesTyped
      <4> QED
        BY <4>1 DEF SeatBase, TablesTyped
    <3>3. CASE Revive(s)
      <4>1. seat' = [seat EXCEPT ![s] = b]
        BY <1>0, <2>2, <2>3, <3>3 DEF Revive, SeatBase, TablesTyped
      <4> QED
        BY <4>1 DEF SeatBase, TablesTyped
    <3> QED
      BY <1>1, <3>1, <3>2, <3>3
  <2>7. TablesMove
    BY <2>1, <2>6, SeatStill DEF SeatBase
  <2>8. MemoryTyped' /\ HostTyped'
    BY <2>1 DEF SeatBase, MemoryTyped, HostTyped
  <2> QED
    BY <2>1, <2>7, <2>8, SeatBaseHeld, SeatIdleHeld DEF GuardFree
<1>2. CASE ForkExits(s) \/ SendMissing(s)
  <2>1. /\ GuardFree /\ MarkMissing(s)
        /\ UNCHANGED <<prov, pane, conv, held, maker, clearer, asker, worker, serving, creds,
                 threads, seatCrashes, seatFaults>>
    BY <1>2 DEF ForkExits, SendMissing
  <2>2. TablesMove
    BY <2>1, SeatMissing
  <2>3. MemoryTyped' /\ HostTyped'
    BY <2>1 DEF SeatBase, MemoryTyped, HostTyped
  <2> QED
    BY <2>1, <2>2, <2>3, SeatBaseHeld, SeatIdleHeld DEF GuardFree
<1>3. CASE PaneDies(s)
  <2>1. seatFaults' \in Nat /\ pane' \in [Seats -> Nat]
    BY <1>3, SeatFaultTyped DEF SeatBase, HostTyped, PaneDies
  <2>2. MemoryTyped' /\ HostTyped'
    BY <1>3, <2>1 DEF SeatBase, MemoryTyped, HostTyped, PaneDies
  <2> QED
    BY <1>3, <2>2, SeatBaseAside, SeatSameMaker DEF SeatBase, PaneDies
<1> QED
  BY <1>1, <1>2, <1>3

LEMMA SeatBaseStep ==
  ASSUME SeatBase, [SeatNext]_seatVars
  PROVE  BaseKept
<1>1. CASE SeatNext
  BY <1>1, SeatBaseCreate, SeatBaseMakerStart, SeatBaseMakerWait, SeatBaseMakerFailed,
     SeatBaseMakerCommit, SeatBaseRestore, SeatBaseRetire, SeatBaseKill, SeatBaseStart, SeatBaseVerify,
     SeatBaseCheck, SeatBaseCommit, SeatBaseStartup, SeatBaseRequest, SeatBaseWorkerAside,
     SeatBaseLook, SeatBaseFinal, SeatBaseFence, SeatBaseWorkerRecover, SeatBaseClear, SeatBaseTurns
     DEF SeatNext, HeldStep, MakerStep, WorkerStep
<1>2. CASE UNCHANGED seatVars
  <2>1. UNCHANGED <<prov, seat, launch, rot, pane, conv, held, maker, clearer, asker, worker,
              serving, creds, threads, seatCrashes, seatFaults>>
    BY <1>2 DEF seatVars
  <2>2. MemoryTyped' /\ HostTyped'
    BY <2>1 DEF SeatBase, MemoryTyped, HostTyped
  <2> QED
    BY <2>1, <2>2, SeatBaseAside, SeatSameMaker DEF SeatBase
<1> QED
  BY <1>1, <1>2

\* RotationBacked, for every set of seats and every bound, whatever crashes and fails: a rotation
\* that is relaunching has a launch that recovery will find, a seat has at most one active
\* rotation, and no launch is left behind by a rotation that ended.
THEOREM RotationsBacked == SeatSpec => []RotationBacked
<1>1. SeatInit => SeatBase
  BY SeatInitBase
<1>2. SeatBase /\ [SeatNext]_seatVars => SeatBase'
  BY SeatBaseStep DEF BaseKept
<1>3. SeatBase => RotationBacked
  <2> SUFFICES ASSUME SeatBase PROVE RotationBacked
    OBVIOUS
  <2>1. 0 \notin DOMAIN launch
    BY SeatRowTypes DEF SeatBase
  <2> QED
    BY <2>1 DEF SeatBase, Backing, BackedBy, RotationBacked, ActiveRotation
<1> QED
  BY <1>1, <1>2, <1>3, PTL DEF SeatSpec

-----------------------------------------------------------------------------
(* Credentials *)

\* A create handler that nothing has overtaken: its launch is the only one of the seat.
Alone(s) ==
  /\ \A i \in DOMAIN launch : launch[i].seat = s => i = maker[s].l
  /\ seat[s].status = "stopped" /\ ~seat[s].retired
  /\ launch[maker[s].l].cred = seat[s].cred /\ pane[s] \in {0, seat[s].cred}
  /\ maker[s].pc = "start" => pane[s] = 0

Making(s) == maker[s].pc = "start" \/ (maker[s].pc # "none" /\ prov[s] # "codex-fork")

\* The registry has the credential of a relaunch from its kill on; only the restore of a fork
\* waits until the old runtime is gone.
HeldCred(s) ==
  Relaunch /\ Target = s =>
    /\ held.pc # "kill" => seat[s].cred = Cred /\ pane[s] \in {0, Cred}
    /\ held.pc = "kill" /\ ~(held.op = "restore" /\ prov[s] = "codex-fork") => seat[s].cred = Cred

\* Somebody is about to remove the runtime of a seat, or a restart will.
Pending(s) ==
  \/ held.op \in {"rotate", "recover"} /\ held.pc = "kill" /\ Target = s
  \/ ~serving /\ \E i \in DOMAIN launch : launch[i].seat = s /\ launch[i].status = "launching"

Mismatch(s) == seat[s].there /\ pane[s] # 0 /\ pane[s] # seat[s].cred

Agree(s) ==
  /\ prov[s] # "codex-fork" /\ LiveSeat(s) /\ pane[s] # 0 => pane[s] = seat[s].cred
  /\ prov[s] = "codex-fork" /\ seatFaults = 0 /\ Mismatch(s) =>
       IsStopped(s) /\ (seat[s].retired \/ Pending(s))

HasLaunch(s) == \E i \in DOMAIN launch : launch[i].seat = s

AuthOf(s) ==
  /\ Making(s) => Alone(s)
  /\ HeldCred(s) /\ Agree(s)
  /\ Retiring(s) => LiveSeat(s)
  /\ ~HasLaunch(s) => pane[s] = 0 /\ ~seat[s].there

SeatAuth == \A s \in Seats : AuthOf(s)

\* What a step on one seat does to the launches
CredsKept ==
  DOMAIN launch' = DOMAIN launch /\ \A i \in DOMAIN launch : launch'[i].cred = launch[i].cred

StatusLocal(t) ==
  \A i \in DOMAIN launch : launch[i].seat # t => launch'[i].status = launch[i].status

LEMMA SeatFinalLocal ==
  ASSUME SeatBase, NEW s \in Seats, launch' = FinalLaunch(s)
  PROVE  CredsKept /\ StatusLocal(s)
<1>1. /\ DOMAIN launch' = DOMAIN launch
      /\ \A i \in DOMAIN launch :
           /\ launch'[i].cred = launch[i].cred
           /\ launch'[i].status = IF launch[i].rot \in ActiveOf(s) /\ launch[i].status = "launching"
                                            THEN "failed" ELSE launch[i].status
  BY SeatFinalLaunch DEF SeatBase
<1>2. ASSUME NEW i \in DOMAIN launch, launch[i].rot \in ActiveOf(s)
      PROVE  launch[i].seat = s
  <2>1. launch[i].rot \in DOMAIN rot /\ rot[launch[i].rot].seat = s
    BY <1>2 DEF ActiveOf
  <2>2. 0 \notin DOMAIN rot
    BY SeatRowTypes DEF SeatBase
  <2> QED
    BY <2>1, <2>2 DEF SeatBase, Backing, BackedBy
<1> QED
  BY <1>1, <1>2 DEF CredsKept, StatusLocal

LEMMA SeatRowLocal ==
  ASSUME SeatBase, NEW l \in DOMAIN launch, NEW st \in {"launching", "applied", "failed"},
         launch' = [launch EXCEPT ![l].status = st]
  PROVE  CredsKept /\ StatusLocal(launch[l].seat)
<1>1. \A i \in DOMAIN launch : launch[i] \in LaunchSet
  BY SeatRowTypes DEF SeatBase
<1>2. DOMAIN launch' = DOMAIN launch
      /\ \A i \in DOMAIN launch : launch'[i] = IF i = l THEN [launch[i] EXCEPT !.status = st]
                                                        ELSE launch[i]
  OBVIOUS
<1>3. \A i \in DOMAIN launch : launch'[i].cred = launch[i].cred
  BY <1>1, <1>2 DEF LaunchSet
<1> QED
  BY <1>2, <1>3 DEF CredsKept, StatusLocal

LEMMA SeatFailsLocal ==
  ASSUME SeatBase, NEW l \in DOMAIN launch, NEW remove \in BOOLEAN, MarkFailed(l, remove)
  PROVE  CredsKept /\ StatusLocal(launch[l].seat)
<1>1. CASE remove
  BY <1>1, SeatRowLocal DEF MarkFailed
<1>2. CASE ~remove
  <2> DEFINE s == launch[l].seat
             q == FinalLaunch(s)
  <2>1. s \in Seats
    BY SeatRowTypes DEF SeatBase, LaunchSet
  <2>2. /\ DOMAIN q = DOMAIN launch /\ q \in Seq(LaunchSet)
        /\ \A i \in DOMAIN launch :
           /\ q[i].cred = launch[i].cred
           /\ q[i].status = IF launch[i].rot \in ActiveOf(s) /\ launch[i].status = "launching"
                                            THEN "failed" ELSE launch[i].status
    BY <2>1, SeatFinalLaunch DEF SeatBase
  <2>2a. \A i \in DOMAIN launch : q[i] \in LaunchSet
    BY <2>2, ElementOfSeq, LenProperties
  <2>3. launch' = [q EXCEPT ![l].status = "failed"]
    BY <1>2 DEF MarkFailed
  <2>4. ASSUME NEW i \in DOMAIN launch, launch[i].rot \in ActiveOf(s)
        PROVE  launch[i].seat = s
    <3>1. launch[i].rot \in DOMAIN rot /\ rot[launch[i].rot].seat = s
      BY <2>4 DEF ActiveOf
    <3>2. 0 \notin DOMAIN rot
      BY SeatRowTypes DEF SeatBase
    <3> QED
      BY <3>1, <3>2 DEF SeatBase, Backing, BackedBy
  <2> HIDE DEF q, s
  <2>5. DOMAIN launch' = DOMAIN launch
        /\ \A i \in DOMAIN launch : launch'[i] = IF i = l THEN [q[i] EXCEPT !.status = "failed"] ELSE q[i]
    BY <2>2, <2>3
  <2>6. \A i \in DOMAIN launch : launch'[i].cred = q[i].cred
    BY <2>2a, <2>5 DEF LaunchSet
  <2>7. CredsKept
    BY <2>2, <2>5, <2>6 DEF CredsKept
  <2>8. StatusLocal(s)
    BY <2>2, <2>4, <2>5 DEF StatusLocal, s
  <2> QED
    BY <2>7, <2>8 DEF s
<1> QED
  BY <1>1, <1>2

\* A step on one seat, and what the others need of it
SeatLocal(t) ==
  /\ prov' = prov /\ serving' = serving /\ (seatFaults' = 0 => seatFaults = 0)
  /\ \A s \in Seats : s # t => seat'[s] = seat[s] /\ pane'[s] = pane[s] /\ maker'[s] = maker[s]
  /\ \A i \in DOMAIN launch' : launch'[i].seat # t =>
       i \in DOMAIN launch /\ launch'[i].cred = launch[i].cred /\ launch'[i].status = launch[i].status
  /\ held' = held \/ ((Relaunch => Target = t) /\ (Relaunch' => Target' = t))
  /\ \A s \in Seats : s # t => (Retiring(s)' => Retiring(s))

LEMMA SeatOthers ==
  ASSUME SeatBase, BaseKept, SeatAuth, NEW t \in Seats, NEW s \in Seats, s # t, SeatLocal(t)
  PROVE  AuthOf(s)'
<1>0. /\ seat'[s] = seat[s] /\ pane'[s] = pane[s] /\ maker'[s] = maker[s] /\ prov' = prov
      /\ serving' = serving /\ (seatFaults' = 0 => seatFaults = 0) /\ AuthOf(s)
  BY DEF SeatLocal, SeatAuth
<1>1. LaunchKept(launch, launch')
  BY DEF BaseKept, TablesMove
<1>2. \A i \in DOMAIN launch' : launch'[i].seat = s =>
        /\ i \in DOMAIN launch /\ launch[i].seat = s
        /\ launch'[i].cred = launch[i].cred /\ launch'[i].status = launch[i].status
  BY <1>1 DEF SeatLocal, LaunchKept
<1>3. \A i \in DOMAIN launch : launch[i].seat = s => i \in DOMAIN launch' /\ launch'[i].seat = s
  BY <1>1 DEF LaunchKept
<1>4. (Making(s) => Alone(s))'
  <2> SUFFICES ASSUME Making(s)' PROVE Alone(s)'
    OBVIOUS
  <2>1. Making(s) /\ maker[s].pc # "none"
    BY <1>0 DEF Making
  <2>2. Alone(s)
    BY <1>0, <2>1 DEF AuthOf
  <2>3. maker[s].l \in DOMAIN launch /\ launch[maker[s].l].seat = s
    BY <2>1 DEF SeatBase, MakerRight
  <2>4. launch'[maker[s].l].cred = launch[maker[s].l].cred
    BY <1>2, <1>3, <2>3
  <2> QED
    BY <1>0, <1>2, <2>2, <2>4 DEF Alone
<1>5. Relaunch' /\ Target' = s => held' = held /\ Relaunch /\ Target = s /\ Cred' = Cred
  <2> SUFFICES ASSUME Relaunch', Target' = s PROVE held' = held /\ Relaunch /\ Target = s /\ Cred' = Cred
    OBVIOUS
  <2>1. held' = held
    BY DEF SeatLocal
  <2>2. Relaunch
    BY <2>1 DEF Relaunch
  <2>3. held.l \in DOMAIN launch
    BY <2>2, SeatTarget
  <2>4. Target = s
    BY <1>1, <2>1, <2>3 DEF Target, LaunchKept
  <2>5. Cred' = Cred
    BY <1>2, <1>3, <2>1, <2>3, <2>4 DEF Target, Cred
  <2> QED
    BY <2>1, <2>2, <2>4, <2>5
<1>6. HeldCred(s)'
  BY <1>0, <1>5 DEF AuthOf, HeldCred
<1>7. Pending(s) => Pending(s)'
  <2>1. CASE held.op \in {"rotate", "recover"} /\ held.pc = "kill" /\ Target = s
    <3>1. Relaunch /\ held.l \in DOMAIN launch
      BY <2>1, SeatTarget DEF Relaunch
    <3>2. held' = held
      BY <2>1, <3>1 DEF SeatLocal
    <3>3. Target' = s
      BY <1>1, <2>1, <3>1, <3>2 DEF Target, LaunchKept
    <3> QED
      BY <2>1, <3>2, <3>3 DEF Pending
  <2>2. CASE ~serving /\ \E i \in DOMAIN launch : launch[i].seat = s /\ launch[i].status = "launching"
    BY <1>0, <1>2, <1>3, <2>2 DEF Pending
  <2> QED
    BY <2>1, <2>2 DEF Pending
<1>8. Agree(s)'
  BY <1>0, <1>7 DEF AuthOf, Agree, Mismatch, LiveSeat, IsStopped
<1>9. (Retiring(s) => LiveSeat(s))'
  BY <1>0 DEF SeatLocal, AuthOf, LiveSeat, IsStopped
<1>10. (~HasLaunch(s) => pane[s] = 0 /\ ~seat[s].there)'
  BY <1>0, <1>3 DEF AuthOf, HasLaunch
<1> QED
  BY <1>4, <1>6, <1>8, <1>9, <1>10 DEF AuthOf

\* The seat that is relaunched is not being created, nor is one that is live.
LEMMA SeatNotMaking ==
  ASSUME SeatBase, SeatAuth, NEW t \in Seats,
         \/ Relaunch /\ Target = t
         \/ LiveSeat(t)
         \/ ~serving
         \/ \E i \in DOMAIN launch : launch[i].seat = t /\ launch[i].kind # "create"
  PROVE  ~Making(t)
<1> SUFFICES ASSUME Making(t) PROVE FALSE
  OBVIOUS
<1>1. /\ maker[t].pc # "none" /\ serving /\ maker[t].l \in DOMAIN launch
      /\ launch[maker[t].l].kind = "create" /\ launch[maker[t].l].seat = t
  BY DEF Making, SeatBase, MakerRight
<1>2. Alone(t)
  BY DEF SeatAuth, AuthOf
<1>3. CASE Relaunch /\ Target = t
  <2>1. held.l \in DOMAIN launch /\ RelaunchRight
    BY <1>3, SeatTarget
  <2>2. held.l = maker[t].l
    BY <1>2, <1>3, <2>1 DEF Alone, Target
  <2> QED
    BY <1>1, <1>3, <2>1, <2>2 DEF RelaunchRight, Relaunch
<1>4. CASE LiveSeat(t)
  BY <1>2, <1>4 DEF Alone, LiveSeat, IsStopped
<1>5. CASE \E i \in DOMAIN launch : launch[i].seat = t /\ launch[i].kind # "create"
  BY <1>1, <1>2, <1>5 DEF Alone
<1> QED
  BY <1>1, <1>3, <1>4, <1>5

\* All seats after a step on one of them
LEMMA SeatAuthFrom ==
  ASSUME SeatBase, BaseKept, SeatAuth, NEW t \in Seats, SeatLocal(t), AuthOf(t)'
  PROVE  SeatAuth'
  BY SeatOthers DEF SeatAuth

\* A step that leaves guard, credentials and runtimes alone
LEMMA SeatQuietAuth ==
  ASSUME SeatBase, BaseKept, SeatAuth, NEW t \in Seats, GuardFree, held' = held,
         serving' = serving, prov' = prov, maker' = maker, pane' = pane,
         seatFaults' = 0 => seatFaults = 0,
         CredsKept, StatusLocal(t),
         \A s \in Seats : s # t => seat'[s] = seat[s],
         seat'[t].cred = seat[t].cred, seat'[t].there = seat[t].there,
         seat'[t].retired = seat[t].retired,
         \/ seat'[t].status = seat[t].status \/ seat'[t].status = "stopped" \/ LiveSeat(t)
         \/ prov[t] = "codex-fork" /\ pane[t] # 0
  PROVE  SeatAuth'
<1>0. LaunchKept(launch, launch') /\ held = NoOp /\ serving
  BY DEF BaseKept, TablesMove, GuardFree
<1>1. SeatLocal(t)
  BY <1>0 DEF SeatLocal, CredsKept, StatusLocal, LaunchKept, Retiring
<1>2. AuthOf(t)
  BY DEF SeatAuth
<1>3. (Making(t) => Alone(t))'
  <2> SUFFICES ASSUME Making(t)' PROVE Alone(t)'
    OBVIOUS
  <2>1. Making(t) /\ maker[t].pc # "none"
    BY DEF Making
  <2>2. Alone(t) /\ ~LiveSeat(t)
    BY <1>2, <2>1, SeatNotMaking DEF AuthOf
  <2>3. maker[t].l \in DOMAIN launch /\ launch[maker[t].l].seat = t
    BY <2>1 DEF SeatBase, MakerRight
  <2>4. seat'[t].status = "stopped"
    <3>1. prov[t] = "codex-fork" => pane[t] = 0
      BY <2>1, <2>2 DEF Making, Alone
    <3> QED
      BY <2>2, <3>1 DEF Alone
  <2> QED
    BY <1>0, <2>2, <2>3, <2>4 DEF Alone, CredsKept, LaunchKept
<1>4. HeldCred(t)' /\ (Retiring(t) => LiveSeat(t))'
  BY <1>0 DEF HeldCred, Relaunch, Retiring, NoOp
<1>5. ~Pending(t)
  BY <1>0 DEF Pending, NoOp
<1>6. Agree(t)'
  <2>1. ASSUME prov[t] # "codex-fork", LiveSeat(t)', pane[t] # 0 PROVE pane[t] = seat'[t].cred
    <3>1. LiveSeat(t)
      BY <2>1 DEF LiveSeat, IsStopped
    <3> QED
      BY <1>2, <2>1, <3>1 DEF AuthOf, Agree
  <2>2. ASSUME prov[t] = "codex-fork", seatFaults' = 0, Mismatch(t)'
        PROVE  IsStopped(t)' /\ seat'[t].retired
    BY <1>2, <1>5, <2>2 DEF AuthOf, Agree, Mismatch, IsStopped
  <2> QED
    BY <2>1, <2>2 DEF Agree
<1>7. (~HasLaunch(t) => pane[t] = 0 /\ ~seat[t].there)'
  BY <1>0, <1>2 DEF AuthOf, HasLaunch, CredsKept, LaunchKept
<1>8. AuthOf(t)'
  BY <1>3, <1>4, <1>6, <1>7 DEF AuthOf
<1> QED
  BY <1>1, <1>8, SeatAuthFrom

LEMMA SeatSameRows ==
  ASSUME launch' = launch
  PROVE  CredsKept /\ \A t \in Seats : StatusLocal(t)
  BY DEF CredsKept, StatusLocal

LEMMA SeatStopWritten ==
  ASSUME SeatBase, NEW t \in Seats, seat' = [seat EXCEPT ![t].status = "stopped"]
  PROVE  /\ \A s \in Seats : s # t => seat'[s] = seat[s]
         /\ seat'[t].cred = seat[t].cred /\ seat'[t].there = seat[t].there
         /\ seat'[t].retired = seat[t].retired /\ seat'[t].status = "stopped"
  BY DEF SeatBase, TablesTyped, SeatSet

LEMMA SeatAuthRequest ==
  ASSUME SeatBase, BaseKept, SeatAuth, NEW s \in Seats, RequestRotation(s)
  PROVE  SeatAuth'
<1>1. /\ GuardFree /\ held' = held /\ serving' = serving /\ prov' = prov /\ maker' = maker
      /\ pane' = pane /\ seatFaults' = seatFaults
  BY DEF RequestRotation
<1>2. CredsKept /\ StatusLocal(s)
  BY SeatFinalLocal, SeatSameRows DEF RequestRotation, MarkMissing
<1>3. /\ \A t \in Seats : t # s => seat'[t] = seat[t]
      /\ seat'[s].cred = seat[s].cred /\ seat'[s].there = seat[s].there
      /\ seat'[s].retired = seat[s].retired
      /\ seat'[s].status = seat[s].status \/ seat'[s].status = "stopped"
  <2>1. CASE seat' = seat
    BY <2>1
  <2>2. CASE MarkMissing(s)
    BY <2>2, SeatStopWritten DEF MarkMissing
  <2>3. CASE seat' = [seat EXCEPT ![s].proof = FALSE]
    BY <2>3 DEF SeatBase, TablesTyped, SeatSet
  <2> QED
    BY <2>1, <2>2, <2>3 DEF RequestRotation
<1> QED
  BY <1>1, <1>2, <1>3, SeatQuietAuth

LEMMA SeatAuthLook ==
  ASSUME SeatBase, BaseKept, SeatAuth, NEW s \in Seats, WorkerLook(s) \/ ClearBegin(s)
  PROVE  SeatAuth'
<1>1. /\ GuardFree /\ held' = held /\ serving' = serving /\ prov' = prov /\ maker' = maker
      /\ pane' = pane /\ seatFaults' = seatFaults /\ seat' = seat /\ launch' = launch
  BY DEF WorkerLook, ClearBegin
<1> QED
  BY <1>1, SeatSameRows, SeatQuietAuth

LEMMA SeatAuthFinal ==
  ASSUME SeatBase, BaseKept, SeatAuth, NEW s \in Seats,
         WorkerFinal(s) \/ ForkExits(s) \/ SendMissing(s)
  PROVE  SeatAuth'
<1>1. /\ GuardFree /\ held' = held /\ serving' = serving /\ prov' = prov /\ maker' = maker
      /\ pane' = pane /\ seatFaults' = seatFaults /\ launch' = FinalLaunch(s)
      /\ seat' = seat \/ seat' = [seat EXCEPT ![s].status = "stopped"]
  BY DEF WorkerFinal, ForkExits, SendMissing, MarkMissing
<1>2. CredsKept /\ StatusLocal(s)
  BY <1>1, SeatFinalLocal
<1>3. /\ \A t \in Seats : t # s => seat'[t] = seat[t]
      /\ seat'[s].cred = seat[s].cred /\ seat'[s].there = seat[s].there
      /\ seat'[s].retired = seat[s].retired
      /\ seat'[s].status = seat[s].status \/ seat'[s].status = "stopped"
  BY <1>1, SeatStopWritten
<1> QED
  BY <1>1, <1>2, <1>3, SeatQuietAuth

LEMMA SeatFaultCounts ==
  ASSUME SeatBase, Fault \/ NoFault
  PROVE  (seatFaults' = 0 => seatFaults = 0) /\ (Fault => seatFaults' # 0)
  BY DEF SeatBase, HostTyped, Fault, NoFault

LEMMA SeatAuthTurns ==
  ASSUME SeatBase, BaseKept, SeatAuth, NEW s \in Seats,
         TurnEnds(s) \/ TurnStarts(s) \/ Revive(s) \/ ClearCommit(s) \/ BindCodex(s)
  PROVE  SeatAuth'
<1>1. /\ GuardFree /\ held' = held /\ serving' = serving /\ prov' = prov /\ maker' = maker
      /\ pane' = pane /\ launch' = launch
  BY DEF TurnEnds, TurnStarts, Revive, ClearCommit, BindCodex
<1>2. seatFaults' = 0 => seatFaults = 0
  BY SeatFaultCounts DEF TurnEnds, TurnStarts, Revive, ClearCommit, BindCodex
<1>3. /\ \A t \in Seats : t # s => seat'[t] = seat[t]
      /\ seat'[s].cred = seat[s].cred /\ seat'[s].there = seat[s].there
      /\ seat'[s].retired = seat[s].retired
  <2>1. CASE TurnEnds(s)
    BY <2>1 DEF TurnEnds, SeatBase, TablesTyped, SeatSet
  <2>2. CASE TurnStarts(s)
    BY <2>2 DEF TurnStarts, SeatBase, TablesTyped, SeatSet
  <2>3. CASE Revive(s)
    BY <2>3 DEF Revive, SeatBase, TablesTyped, SeatSet
  <2>4. CASE ClearCommit(s)
    BY <2>4 DEF ClearCommit, SeatBase, TablesTyped, SeatSet
  <2>5. CASE BindCodex(s)
    BY <2>5 DEF BindCodex, SeatBase, TablesTyped, SeatSet
  <2> QED
    BY <2>1, <2>2, <2>3, <2>4, <2>5
<1>4. \/ seat'[s].status = seat[s].status \/ LiveSeat(s)
      \/ prov[s] = "codex-fork" /\ pane[s] # 0
  <2>1. CASE TurnEnds(s) \/ TurnStarts(s) \/ Revive(s)
    BY <2>1 DEF TurnEnds, TurnStarts, Revive
  <2>2. CASE ClearCommit(s)
    BY <2>2 DEF ClearCommit, SeatBase, TablesTyped, SeatSet
  <2>3. CASE BindCodex(s)
    BY <2>3 DEF BindCodex, SeatBase, TablesTyped, SeatSet
  <2> QED
    BY <2>1, <2>2, <2>3
<1> QED
  BY <1>1, <1>2, <1>3, <1>4, SeatSameRows, SeatQuietAuth

\* Steps beside the guard that touch neither registry nor runtimes, or end a runtime
LEMMA SeatAsideAuth ==
  ASSUME SeatBase, BaseKept, SeatAuth, NEW t \in Seats,
         UNCHANGED <<prov, seat, launch, rot, held, serving>>,
         seatFaults' = 0 => seatFaults = 0,
         \A s \in Seats : s # t => pane'[s] = pane[s] /\ maker'[s] = maker[s],
         maker'[t] = maker[t]
           \/ (maker[t].pc # "none" /\ maker'[t].l = maker[t].l /\ maker'[t].pc # "start"),
         pane'[t] \in {0, pane[t]}
  PROVE  SeatAuth'
<1>1. SeatLocal(t)
  BY DEF SeatLocal, Retiring
<1>2. AuthOf(t)
  BY DEF SeatAuth
<1>3. (Making(t) => Alone(t))'
  <2> SUFFICES ASSUME Making(t)' PROVE Alone(t)'
    OBVIOUS
  <2>1. Making(t)
    BY DEF Making
  <2>2. Alone(t)
    BY <1>2, <2>1 DEF AuthOf
  <2> QED
    BY <2>2 DEF Alone
<1>4. HeldCred(t)' /\ (Retiring(t) => LiveSeat(t))'
  BY <1>2 DEF AuthOf, HeldCred, Relaunch, Retiring, Target, Cred, LiveSeat, IsStopped
<1>5. Agree(t)'
  BY <1>2 DEF AuthOf, Agree, Mismatch, LiveSeat, IsStopped, Pending, Target
<1>6. (~HasLaunch(t) => pane[t] = 0 /\ ~seat[t].there)'
  BY <1>2 DEF AuthOf, HasLaunch
<1>7. AuthOf(t)'
  BY <1>3, <1>4, <1>5, <1>6 DEF AuthOf
<1> QED
  BY <1>1, <1>7, SeatAuthFrom

LEMMA SeatAuthAside ==
  ASSUME SeatBase, BaseKept, SeatAuth, NEW s \in Seats,
         StartWorker(s) \/ WorkerExit(s) \/ ClearType(s) \/ PaneDies(s) \/ MakerWait(s)
  PROVE  SeatAuth'
<1>1. UNCHANGED <<prov, seat, launch, rot, held, serving>>
  BY DEF StartWorker, WorkerExit, ClearType, PaneDies, MakerWait
<1>2. seatFaults' = 0 => seatFaults = 0
  BY SeatFaultCounts DEF StartWorker, WorkerExit, ClearType, PaneDies, MakerWait
<1>3. (\A t \in Seats : t # s => pane'[t] = pane[t]) /\ pane'[s] \in {0, pane[s]}
  BY DEF StartWorker, WorkerExit, ClearType, PaneDies, MakerWait, SeatBase, HostTyped
<1>4. CASE ~MakerWait(s)
  <2>1. maker' = maker
    BY <1>4 DEF StartWorker, WorkerExit, ClearType, PaneDies
  <2> QED
    BY <1>1, <1>2, <1>3, <2>1, SeatAsideAuth
<1>5. CASE MakerWait(s)
  <2>1. maker[s].pc = "wait" /\ maker'[s].l = maker[s].l /\ maker'[s].pc \in {"commit", "failed"}
        /\ \A t \in Seats : t # s => maker'[t] = maker[t]
    BY <1>5 DEF MakerWait, SeatBase, MemoryTyped, MakerSet
  <2> QED
    BY <1>1, <1>2, <1>3, <2>1, SeatAsideAuth
<1> QED
  BY <1>4, <1>5

\* What the failure of a launch writes into the registry's seats
LEMMA SeatFailsSeat ==
  ASSUME SeatBase, NEW l \in DOMAIN launch, NEW remove \in BOOLEAN, MarkFailed(l, remove)
  PROVE  LET t == launch[l].seat IN
         /\ t \in Seats /\ \A s \in Seats : s # t => seat'[s] = seat[s]
         /\ seat'[t].status = "stopped"
         /\ \/ remove /\ ~seat'[t].there /\ ~seat'[t].retired
            \/ ~remove /\ seat'[t].cred = seat[t].cred /\ seat'[t].there = seat[t].there
               /\ seat'[t].retired = seat[t].retired
<1> DEFINE t == launch[l].seat
<1>1. t \in Seats
  BY SeatRowTypes DEF SeatBase, LaunchSet
<1>2. CASE remove
  <2>1. seat' = [seat EXCEPT ![t] = NoSeat]
    BY <1>2 DEF MarkFailed
  <2>2. seat'[t] = NoSeat /\ \A s \in Seats : s # t => seat'[s] = seat[s]
    BY <1>1, <2>1 DEF SeatBase, TablesTyped
  <2>3. NoSeat.status = "stopped" /\ ~NoSeat.there /\ ~NoSeat.retired
    BY DEF NoSeat
  <2> QED
    BY <1>1, <1>2, <2>2, <2>3
<1>3. CASE ~remove
  <2>1. seat' = [seat EXCEPT ![t].status = "stopped"]
    BY <1>3 DEF MarkFailed
  <2> HIDE DEF t
  <2>2. /\ \A s \in Seats : s # t => seat'[s] = seat[s]
        /\ seat'[t].cred = seat[t].cred /\ seat'[t].there = seat[t].there
        /\ seat'[t].retired = seat[t].retired /\ seat'[t].status = "stopped"
    BY <1>1, <2>1, SeatStopWritten
  <2> QED
    BY <1>1, <1>3, <2>2 DEF t
<1> QED
  BY <1>2, <1>3

\* A step of the operation that holds the guard while it relaunches a seat
LEMMA SeatRelaunchAuth ==
  ASSUME SeatBase, BaseKept, SeatAuth, NEW t \in Seats, Relaunch, Target = t,
         prov' = prov, serving' = serving, maker' = maker, seatFaults' = 0 => seatFaults = 0,
         CredsKept, StatusLocal(t),
         \A s \in Seats : s # t => seat'[s] = seat[s] /\ pane'[s] = pane[s],
         held' = NoOp \/ (held'.op = held.op /\ held'.l = held.l),
         HeldCred(t)', Agree(t)'
  PROVE  SeatAuth'
<1>0. LaunchKept(launch, launch') /\ held.l \in DOMAIN launch /\ launch[held.l].seat = t
  BY SeatTarget DEF BaseKept, TablesMove, Target
<1>1. held.l \in DOMAIN launch' /\ launch'[held.l].seat = t
  BY <1>0 DEF LaunchKept
<1>2. Relaunch' => Target' = t
  BY <1>1 DEF Relaunch, Target, NoOp
<1>3. \A s \in Seats : ~Retiring(s)'
  BY DEF Retiring, Relaunch, NoOp
<1>4. SeatLocal(t)
  BY <1>0, <1>2, <1>3 DEF SeatLocal, CredsKept, StatusLocal, LaunchKept
<1>5. ~Making(t)'
  BY SeatNotMaking DEF Making
<1>6. HasLaunch(t)'
  BY <1>1 DEF HasLaunch
<1>7. AuthOf(t)'
  BY <1>3, <1>5, <1>6 DEF AuthOf
<1> QED
  BY <1>4, <1>7, SeatAuthFrom

LEMMA SeatRelaunchFails ==
  ASSUME SeatBase, BaseKept, SeatAuth, Relaunch, held' = NoOp,
         prov' = prov, serving' = serving, maker' = maker, seatFaults' = 0 => seatFaults = 0,
         MarkFailed(held.l, Removes) \/ (MarkFailed(held.l, FALSE) /\ held.op = "rotate"),
         \A s \in Seats : s # Target => pane'[s] = pane[s],
         pane'[Target] \in {0, pane[Target]},
         pane[Target] \in {0, seat[Target].cred} \/ prov[Target] # "codex-fork" \/ seatFaults' # 0
  PROVE  SeatAuth'
<1>1. /\ held.l \in DOMAIN launch /\ Target \in Seats /\ launch[held.l].seat = Target
  BY SeatTarget DEF Target
<1>2. PICK b \in BOOLEAN : MarkFailed(held.l, b)
  <2>1. Removes \in BOOLEAN
    BY DEF Removes
  <2> QED
    BY <2>1
<1>3. CredsKept /\ StatusLocal(Target)
  BY <1>1, <1>2, SeatFailsLocal
<1>4. /\ \A s \in Seats : s # Target => seat'[s] = seat[s]
      /\ seat'[Target].status = "stopped"
      /\ \/ ~seat'[Target].there
         \/ seat'[Target].cred = seat[Target].cred /\ seat'[Target].there = seat[Target].there
  <2>1. /\ \A s \in Seats : s # launch[held.l].seat => seat'[s] = seat[s]
        /\ seat'[launch[held.l].seat].status = "stopped"
        /\ \/ ~seat'[launch[held.l].seat].there
           \/ seat'[launch[held.l].seat].cred = seat[launch[held.l].seat].cred
              /\ seat'[launch[held.l].seat].there = seat[launch[held.l].seat].there
    BY <1>1, <1>2, SeatFailsSeat
  <2> QED
    BY <2>1 DEF Target
<1>5. PICK t \in Seats : t = Target
  BY <1>1
<1>6. HeldCred(t)'
  BY DEF HeldCred, Relaunch, NoOp
<1>7. Agree(t)'
  <2>1. ~LiveSeat(t)'
    BY <1>4, <1>5 DEF LiveSeat, IsStopped
  <2>2. prov[t] = "codex-fork" /\ seatFaults' = 0 => ~Mismatch(t)'
    BY <1>4, <1>5 DEF Mismatch
  <2> QED
    BY <2>1, <2>2 DEF Agree
<1>8. \A s \in Seats : s # t => seat'[s] = seat[s] /\ pane'[s] = pane[s]
  BY <1>4, <1>5
<1> QED
  BY <1>3, <1>5, <1>6, <1>7, <1>8, SeatRelaunchAuth

\* The guard's holder and what it may rely on
LEMMA SeatHolder ==
  ASSUME SeatBase, SeatAuth, Relaunch
  PROVE  \E t \in Seats :
           /\ t = Target /\ held.l \in DOMAIN launch /\ launch[held.l].seat = t /\ Cred \in Nat
           /\ ~LiveSeat(t) /\ RelaunchRight /\ AuthOf(t)
           /\ held.pc # "kill" => seat[t].cred = Cred /\ pane[t] \in {0, Cred}
           /\ held.pc = "kill" /\ ~(held.op = "restore" /\ prov[t] = "codex-fork") =>
                seat[t].cred = Cred
<1>1. /\ Target \in Seats /\ held.l \in DOMAIN launch /\ RelaunchRight /\ Cred \in Nat
      /\ launch[held.l].seat = Target
  BY SeatTarget DEF Target
<1>2. AuthOf(Target)
  BY <1>1 DEF SeatAuth
<1>3. HeldCred(Target)
  BY <1>2 DEF AuthOf
<1>4. ~LiveSeat(Target)
  BY <1>1 DEF RelaunchRight, LiveSeat
<1>5. /\ held.pc # "kill" => seat[Target].cred = Cred /\ pane[Target] \in {0, Cred}
      /\ held.pc = "kill" /\ ~(held.op = "restore" /\ prov[Target] = "codex-fork") =>
           seat[Target].cred = Cred
  BY <1>3 DEF HeldCred
<1> QED
  BY <1>1, <1>2, <1>4, <1>5

LEMMA SeatAuthKill ==
  ASSUME SeatBase, BaseKept, SeatAuth, KillOld
  PROVE  SeatAuth'
<1>0. Relaunch /\ held.pc = "kill" /\ prov' = prov /\ serving' = serving /\ maker' = maker
  BY DEF KillOld, Relaunch
<1>1. PICK t \in Seats :
           /\ t = Target /\ held.l \in DOMAIN launch /\ launch[held.l].seat = t /\ Cred \in Nat
           /\ ~LiveSeat(t) /\ AuthOf(t)
           /\ held.pc = "kill" /\ ~(held.op = "restore" /\ prov[t] = "codex-fork") =>
                seat[t].cred = Cred
  BY <1>0, SeatHolder
<1>2. seatFaults' = 0 => seatFaults = 0
  BY SeatFaultCounts DEF KillOld
<1>3. CASE /\ pane' = [pane EXCEPT ![t] = 0] /\ Step("start")
           /\ seat' = IF held.op = "restore" /\ prov[t] = "codex-fork"
                      THEN [seat EXCEPT ![t].cred = Cred] ELSE seat
           /\ launch' = launch
  <2>1. /\ held'.op = held.op /\ held'.l = held.l /\ held'.pc = "start"
    BY <1>3 DEF Step, SeatBase, MemoryTyped, HeldSet
  <2>2. /\ \A s \in Seats : s # t => seat'[s] = seat[s] /\ pane'[s] = pane[s]
        /\ pane'[t] = 0 /\ seat'[t].cred = Cred
    BY <1>0, <1>1, <1>3 DEF SeatBase, TablesTyped, HostTyped, SeatSet
  <2>3. Cred' = Cred
    BY <1>3, <2>1 DEF Cred
  <2>4. HeldCred(t)'
    BY <2>1, <2>2, <2>3 DEF HeldCred
  <2>5. Agree(t)'
    BY <2>2 DEF Agree, Mismatch
  <2>6. CredsKept /\ StatusLocal(t)
    BY <1>3, SeatSameRows
  <2> QED
    BY <1>0, <1>1, <1>2, <2>1, <2>2, <2>4, <2>5, <2>6, SeatRelaunchAuth
<1>4. CASE Fault /\ Done /\ MarkFailed(held.l, Removes) /\ pane' = pane
  <2>1. seatFaults' # 0 /\ held' = NoOp
    BY <1>4, SeatFaultCounts DEF Done
  <2> QED
    BY <1>0, <1>2, <1>4, <2>1, SeatRelaunchFails
<1>5. CASE /\ Fault /\ Done /\ pane' = pane
           /\ \/ prov[t] = "codex-fork" /\ MarkInconclusive(held.l)
              \/ UNCHANGED <<seat, launch>>
  <2>1. seatFaults' # 0 /\ held' = NoOp
    BY <1>5, SeatFaultCounts DEF Done
  <2>2. CredsKept /\ StatusLocal(t)
    <3>1. "failed" \in {"launching", "applied", "failed"}
      OBVIOUS
    <3> QED
      BY <1>1, <1>5, <3>1, SeatRowLocal, SeatSameRows DEF MarkInconclusive
  <2>3. \A s \in Seats : s # t => seat'[s] = seat[s]
    BY <1>1, <1>5 DEF MarkInconclusive, SeatBase, TablesTyped
  <2>4. prov[t] # "codex-fork" => ~LiveSeat(t)'
    BY <1>1, <1>5 DEF LiveSeat, IsStopped
  <2>5. HeldCred(t)' /\ Agree(t)'
    BY <1>0, <2>1, <2>4 DEF HeldCred, Relaunch, NoOp, Agree
  <2> QED
    BY <1>0, <1>1, <1>2, <1>5, <2>1, <2>2, <2>3, <2>5, SeatRelaunchAuth
<1> QED
  BY <1>1, <1>3, <1>4, <1>5 DEF KillOld

LEMMA SeatAuthStart ==
  ASSUME SeatBase, BaseKept, SeatAuth, StartNew
  PROVE  SeatAuth'
<1>0. Relaunch /\ held.pc = "start" /\ prov' = prov /\ serving' = serving /\ maker' = maker
  BY SeatPcRelaunches DEF StartNew
<1>1. PICK t \in Seats :
           /\ t = Target /\ held.l \in DOMAIN launch /\ launch[held.l].seat = t /\ Cred \in Nat
           /\ held.pc # "kill" => seat[t].cred = Cred /\ pane[t] \in {0, Cred}
  BY <1>0, SeatHolder
<1>2. seatFaults' = 0 => seatFaults = 0
  BY SeatFaultCounts DEF StartNew
<1>3. CASE /\ pane' = [pane EXCEPT ![t] = Cred] /\ Step(NextPc) /\ UNCHANGED <<seat, launch>>
  <2>1. /\ held'.op = held.op /\ held'.l = held.l
    BY <1>3 DEF Step, SeatBase, MemoryTyped, HeldSet
  <2>2. /\ \A s \in Seats : s # t => seat'[s] = seat[s] /\ pane'[s] = pane[s]
        /\ pane'[t] = Cred /\ seat'[t].cred = Cred
    BY <1>0, <1>1, <1>3 DEF SeatBase, HostTyped
  <2>3. Cred' = Cred
    BY <1>3, <2>1 DEF Cred
  <2>4. HeldCred(t)' /\ Agree(t)'
    BY <2>1, <2>2, <2>3 DEF HeldCred, Agree, Mismatch
  <2>6. CredsKept /\ StatusLocal(t)
    BY <1>3, SeatSameRows
  <2> QED
    BY <1>0, <1>1, <1>2, <2>1, <2>2, <2>4, <2>6, SeatRelaunchAuth
<1>4. CASE MarkFailed(held.l, Removes) /\ Done /\ pane' = pane
  BY <1>0, <1>1, <1>2, <1>4, SeatRelaunchFails DEF Done
<1> QED
  BY <1>1, <1>3, <1>4 DEF StartNew

LEMMA SeatHoldsOn ==
  ASSUME SeatBase, BaseKept, SeatAuth, Relaunch, held.pc # "kill", Step("commit"),
         UNCHANGED <<seat, launch, pane, prov, serving, maker>>, seatFaults' = seatFaults
  PROVE  SeatAuth'
<1>1. PICK t \in Seats :
           /\ t = Target /\ held.l \in DOMAIN launch /\ launch[held.l].seat = t /\ Cred \in Nat
           /\ held.pc # "kill" => seat[t].cred = Cred /\ pane[t] \in {0, Cred}
  BY SeatHolder
<1>2. /\ held'.op = held.op /\ held'.l = held.l /\ Cred' = Cred
  BY DEF Step, SeatBase, MemoryTyped, HeldSet, Cred
<1>3. HeldCred(t)' /\ Agree(t)'
  BY <1>1, <1>2 DEF HeldCred, Agree, Mismatch
<1> QED
  BY <1>1, <1>2, <1>3, SeatSameRows, SeatRelaunchAuth

LEMMA SeatAuthVerify ==
  ASSUME SeatBase, BaseKept, SeatAuth, Verify
  PROVE  SeatAuth'
<1>0. Relaunch /\ held.pc \in {"verify", "wait"} /\ prov' = prov /\ serving' = serving /\ maker' = maker
  BY SeatPcRelaunches DEF Verify
<1>1. PICK t \in Seats :
           /\ t = Target /\ held.l \in DOMAIN launch /\ launch[held.l].seat = t /\ Cred \in Nat
           /\ RelaunchRight
           /\ held.pc # "kill" => seat[t].cred = Cred /\ pane[t] \in {0, Cred}
  BY <1>0, SeatHolder
<1>2. seatFaults' = 0 => seatFaults = 0
  BY SeatFaultCounts DEF Verify
<1>3. CASE Step("commit") /\ UNCHANGED <<seat, launch, pane>> /\ NoFault
  BY <1>0, <1>3, SeatHoldsOn DEF NoFault
<1>4. CASE MarkFailed(held.l, Removes) /\ Done /\ pane' = [pane EXCEPT ![t] = 0]
  <2>1. (\A s \in Seats : s # t => pane'[s] = pane[s]) /\ pane'[t] = 0
    BY <1>4 DEF SeatBase, HostTyped
  <2> QED
    BY <1>0, <1>1, <1>2, <1>4, <2>1, SeatRelaunchFails DEF Done
<1>5. CASE held.pc = "verify" /\ Fault /\ pane' = pane /\ MarkInconclusive(held.l) /\ Done
  <2>1. seatFaults' # 0 /\ held' = NoOp /\ prov[t] = "codex-fork"
    BY <1>1, <1>5, SeatFaultCounts DEF Done, RelaunchRight
  <2>2. CredsKept /\ StatusLocal(t)
    <3>1. "failed" \in {"launching", "applied", "failed"}
      OBVIOUS
    <3> QED
      BY <1>1, <1>5, <3>1, SeatRowLocal DEF MarkInconclusive
  <2>3. \A s \in Seats : s # t => seat'[s] = seat[s]
    BY <1>1, <1>5 DEF MarkInconclusive, SeatBase, TablesTyped
  <2>5. HeldCred(t)' /\ Agree(t)'
    BY <1>0, <2>1 DEF HeldCred, Relaunch, NoOp, Agree
  <2> QED
    BY <1>0, <1>1, <1>2, <1>5, <2>1, <2>2, <2>3, <2>5, SeatRelaunchAuth
<1> QED
  BY <1>1, <1>3, <1>4, <1>5 DEF Verify

LEMMA SeatAuthCheck ==
  ASSUME SeatBase, BaseKept, SeatAuth, CheckRotated
  PROVE  SeatAuth'
<1>0. Relaunch /\ held.pc = "check" /\ prov' = prov /\ serving' = serving /\ maker' = maker
      /\ pane' = pane
  BY SeatPcRelaunches DEF CheckRotated
<1>1. PICK t \in Seats :
           /\ t = Target /\ held.l \in DOMAIN launch /\ launch[held.l].seat = t /\ Cred \in Nat
           /\ RelaunchRight
           /\ held.pc # "kill" => seat[t].cred = Cred /\ pane[t] \in {0, Cred}
  BY <1>0, SeatHolder
<1>2. (seatFaults' = 0 => seatFaults = 0) /\ held.op = "rotate"
  BY <1>0, <1>1, SeatFaultCounts DEF CheckRotated, RelaunchRight
<1>3. CASE Step("commit") /\ UNCHANGED <<seat, launch, rot, worker>> /\ NoFault
  BY <1>0, <1>3, SeatHoldsOn DEF NoFault
<1>4. CASE MarkFailed(held.l, FALSE) /\ Done
  BY <1>0, <1>1, <1>2, <1>4, SeatRelaunchFails DEF Done
<1>5. CASE Done /\ UNCHANGED <<seat, launch, rot>>
  <2>1. held' = NoOp
    BY <1>5 DEF Done
  <2>2. HeldCred(t)' /\ Agree(t)'
    BY <1>0, <1>1, <1>5, <2>1 DEF HeldCred, Relaunch, NoOp, Agree, Mismatch
  <2> QED
    BY <1>0, <1>1, <1>2, <1>5, <2>1, <2>2, SeatSameRows, SeatRelaunchAuth
<1> QED
  BY <1>3, <1>4, <1>5 DEF CheckRotated

LEMMA SeatAuthCommit ==
  ASSUME SeatBase, BaseKept, SeatAuth, CommitLaunch
  PROVE  SeatAuth'
<1>0. /\ Relaunch /\ held.pc = "commit" /\ prov' = prov /\ serving' = serving /\ maker' = maker
      /\ pane' = pane /\ seatFaults' = seatFaults /\ held' = NoOp /\ MarkApplied(held.l)
  BY DEF CommitLaunch, Relaunch, Done
<1>1. PICK t \in Seats :
           /\ t = Target /\ held.l \in DOMAIN launch /\ launch[held.l].seat = t /\ Cred \in Nat
           /\ held.pc # "kill" => seat[t].cred = Cred /\ pane[t] \in {0, Cred}
  BY <1>0, SeatHolder
<1>2. CredsKept /\ StatusLocal(t)
  <2>1. "applied" \in {"launching", "applied", "failed"}
    OBVIOUS
  <2> QED
    BY <1>0, <1>1, <2>1, SeatRowLocal DEF MarkApplied
<1>3. /\ \A s \in Seats : s # t => seat'[s] = seat[s]
      /\ seat'[t].cred = seat[t].cred
  BY <1>1 DEF CommitLaunch, SeatBase, TablesTyped, SeatSet
<1>4. HeldCred(t)' /\ Agree(t)'
  BY <1>0, <1>1, <1>3 DEF HeldCred, Relaunch, NoOp, Agree, Mismatch
<1> QED
  BY <1>0, <1>1, <1>2, <1>3, <1>4, SeatRelaunchAuth

\* A step on one seat by somebody who has the guard only for that step
LEMMA SeatGuardedAuth ==
  ASSUME SeatBase, BaseKept, SeatAuth, NEW t \in Seats, GuardFree, held' = held,
         prov' = prov, serving' = serving, seatFaults' = seatFaults, CredsKept, StatusLocal(t),
         \A s \in Seats : s # t => seat'[s] = seat[s] /\ pane'[s] = pane[s] /\ maker'[s] = maker[s],
         ~Making(t)', Agree(t)', HasLaunch(t)
  PROVE  SeatAuth'
<1>0. LaunchKept(launch, launch') /\ held = NoOp
  BY DEF BaseKept, TablesMove, GuardFree
<1>1. SeatLocal(t)
  BY <1>0 DEF SeatLocal, CredsKept, StatusLocal, LaunchKept, Retiring
<1>2. HeldCred(t)' /\ ~Retiring(t)'
  BY <1>0 DEF HeldCred, Relaunch, Retiring, NoOp
<1>3. HasLaunch(t)'
  BY <1>0 DEF HasLaunch, LaunchKept
<1>4. AuthOf(t)'
  BY <1>2, <1>3 DEF AuthOf
<1> QED
  BY <1>1, <1>4, SeatAuthFrom

LEMMA SeatAuthCreate ==
  ASSUME SeatBase, BaseKept, SeatAuth, NEW s \in Seats, CreateBegin(s)
  PROVE  SeatAuth'
<1>0. /\ GuardFree /\ held' = held /\ serving' = serving /\ prov' = prov /\ pane' = pane
      /\ seatFaults' = seatFaults /\ \A i \in DOMAIN launch : launch[i].seat # s
  BY DEF CreateBegin
<1>1. PICK brief \in BOOLEAN :
        LET th == IF brief THEN threads + 1 ELSE 0 IN
        /\ launch' = Append(launch, LaunchRecord("create", s, th, 0, brief))
        /\ seat' = [seat EXCEPT ![s] = [NoSeat EXCEPT !.there = TRUE, !.cred = creds + 1,
                                                     !.thread = th]]
  BY Zenon DEF CreateBegin
<1> DEFINE th == IF brief THEN threads + 1 ELSE 0
           y == LaunchRecord("create", s, th, 0, brief)
           n == Len(launch) + 1
<1>2. th \in Nat /\ creds + 1 \in Nat /\ n \in Nat
  BY SeatRowTypes DEF SeatBase, HostTyped
<1>3. y \in LaunchSet /\ y.seat = s /\ y.cred = creds + 1 /\ launch' = Append(launch, y)
  <2>1. launch' = Append(launch, y)
    BY <1>1
  <2> HIDE DEF th
  <2> QED
    BY <1>2, <2>1 DEF LaunchRecord, LaunchSet
<1>4. /\ seat'[s].status = "stopped" /\ ~seat'[s].retired /\ seat'[s].cred = creds + 1
      /\ \A t \in Seats : t # s => seat'[t] = seat[t]
  <2> DEFINE x == [NoSeat EXCEPT !.there = TRUE, !.cred = creds + 1, !.thread = th]
  <2>1. seat' = [seat EXCEPT ![s] = x]
    BY <1>1
  <2>2. x.status = "stopped" /\ ~x.retired /\ x.cred = creds + 1
    BY DEF NoSeat
  <2> HIDE DEF x
  <2> QED
    BY <2>1, <2>2 DEF SeatBase, TablesTyped
<1> HIDE DEF y, th
<1>5. /\ launch'[n] = y /\ n \in DOMAIN launch'
      /\ \A i \in DOMAIN launch' : i \in DOMAIN launch \/ i = n
      /\ \A i \in DOMAIN launch : launch'[i] = launch[i]
  BY <1>3, SeatAppends DEF SeatBase, TablesTyped
<1>6. /\ maker'[s].l = n /\ maker'[s].pc = "start"
      /\ \A t \in Seats : t # s => maker'[t] = maker[t]
  BY DEF CreateBegin, SeatBase, MemoryTyped
<1> HIDE DEF n
<1>7. pane[s] = 0
  BY <1>0 DEF SeatAuth, AuthOf, HasLaunch
<1>8. held = NoOp
  BY <1>0 DEF GuardFree
<1>9. SeatLocal(s)
  BY <1>0, <1>3, <1>4, <1>5, <1>6, <1>8 DEF SeatLocal, Retiring
<1>10. Alone(s)'
  BY <1>0, <1>3, <1>4, <1>5, <1>6, <1>7 DEF Alone
<1>11. Agree(s)' /\ HasLaunch(s)'
  BY <1>0, <1>3, <1>5, <1>7 DEF Agree, Mismatch, HasLaunch
<1>12. HeldCred(s)' /\ ~Retiring(s)'
  BY <1>0, <1>8 DEF HeldCred, Relaunch, Retiring, NoOp
<1>13. AuthOf(s)'
  BY <1>10, <1>11, <1>12 DEF AuthOf
<1> QED
  BY <1>9, <1>13, SeatAuthFrom

LEMMA SeatAuthMakerStart ==
  ASSUME SeatBase, BaseKept, SeatAuth, NEW t \in Seats, MakerStart(t)
  PROVE  SeatAuth'
<1>0. /\ UNCHANGED <<prov, seat, launch, rot, held, serving>> /\ maker[t].pc = "start"
  BY DEF MakerStart
<1>1. Making(t)
  BY <1>0 DEF Making
<1>2. AuthOf(t) /\ Alone(t)
  BY <1>1 DEF SeatAuth, AuthOf
<1>3. ~(Relaunch /\ Target = t)
  BY <1>1, SeatNotMaking
<1>4. seatFaults' = 0 => seatFaults = 0
  BY SeatFaultCounts DEF MakerStart
<1>5. /\ maker'[t].l = maker[t].l /\ maker'[t].pc # "start"
      /\ \A s \in Seats : s # t => maker'[s] = maker[s] /\ pane'[s] = pane[s]
      /\ pane'[t] \in {pane[t], launch[maker[t].l].cred}
  BY DEF MakerStart, SeatBase, MemoryTyped, MakerSet, HostTyped
<1>6. pane'[t] \in {0, seat[t].cred}
  BY <1>2, <1>5 DEF Alone
<1>7. SeatLocal(t)
  BY <1>0, <1>4, <1>5 DEF SeatLocal, Retiring
<1>8. Alone(t)'
  BY <1>0, <1>2, <1>5, <1>6 DEF Alone
<1>9. Agree(t)'
  BY <1>0, <1>6 DEF Agree, Mismatch
<1>10. HeldCred(t)' /\ (Retiring(t) => LiveSeat(t))'
  BY <1>0, <1>2, <1>3 DEF AuthOf, HeldCred, Relaunch, Target, Retiring, LiveSeat, IsStopped
<1>11. HasLaunch(t)'
  BY <1>0 DEF SeatBase, MakerRight, HasLaunch
<1>12. AuthOf(t)'
  BY <1>8, <1>9, <1>10, <1>11 DEF AuthOf
<1> QED
  BY <1>7, <1>12, SeatAuthFrom

LEMMA SeatAuthMakerEnds ==
  ASSUME SeatBase, BaseKept, SeatAuth, NEW t \in Seats, MakerFailed(t) \/ MakerCommit(t)
  PROVE  SeatAuth'
<1> DEFINE l == maker[t].l
<1>0. /\ GuardFree /\ held' = held /\ serving' = serving /\ prov' = prov /\ seatFaults' = seatFaults
      /\ maker' = [maker EXCEPT ![t] = Asleep] /\ maker[t].pc \in {"failed", "commit"}
  BY DEF MakerFailed, MakerCommit
<1>1. l \in DOMAIN launch /\ launch[l].seat = t
  BY <1>0 DEF SeatBase, MakerRight
<1>2. ~Making(t)' /\ \A s \in Seats : s # t => maker'[s] = maker[s]
  BY <1>0 DEF Making, SeatBase, MemoryTyped, Asleep
<1>3. HasLaunch(t)
  BY <1>1 DEF HasLaunch
<1>4. CASE \E b \in BOOLEAN : MarkFailed(l, b) /\ (b \/ seat[t].retired)
                              /\ (pane' = pane \/ pane' = [pane EXCEPT ![t] = 0])
  <2>1. PICK b \in BOOLEAN : MarkFailed(l, b) /\ (b \/ seat[t].retired)
    BY <1>4
  <2>2. CredsKept /\ StatusLocal(t)
    BY <1>1, <2>1, SeatFailsLocal
  <2>3. /\ \A s \in Seats : s # t => seat'[s] = seat[s]
        /\ seat'[t].status = "stopped"
        /\ ~seat'[t].there \/ seat'[t].retired
    BY <1>1, <2>1, SeatFailsSeat
  <2>4. \A s \in Seats : s # t => pane'[s] = pane[s]
    BY <1>4 DEF SeatBase, HostTyped
  <2>5. Agree(t)'
    BY <2>3 DEF Agree, Mismatch, LiveSeat, IsStopped
  <2> QED
    BY <1>0, <1>2, <1>3, <2>2, <2>3, <2>4, <2>5, SeatGuardedAuth
<1>5. CASE /\ maker[t].pc = "commit" /\ ~seat[t].retired /\ pane' = pane
           /\ seat' = [seat EXCEPT ![t].status = "running", ![t].thread = maker[t].th]
           /\ MarkApplied(l)
  <2>1. CredsKept /\ StatusLocal(t)
    <3>1. "applied" \in {"launching", "applied", "failed"}
      OBVIOUS
    <3> QED
      BY <1>1, <1>5, <3>1, SeatRowLocal DEF MarkApplied
  <2>2. /\ \A s \in Seats : s # t => seat'[s] = seat[s]
        /\ seat'[t].cred = seat[t].cred /\ seat'[t].there = seat[t].there
    BY <1>5 DEF SeatBase, TablesTyped, SeatSet
  <2>3. AuthOf(t)
    BY DEF SeatAuth
  <2>4. prov[t] # "codex-fork" => pane[t] \in {0, seat[t].cred}
    BY <1>5, <2>3 DEF AuthOf, Making, Alone
  <2>5. ~Pending(t)
    BY <1>0 DEF Pending, GuardFree, NoOp
  <2>6. prov[t] = "codex-fork" /\ seatFaults = 0 => ~Mismatch(t)
    BY <1>5, <2>3, <2>5 DEF AuthOf, Agree
  <2>7. Agree(t)'
    BY <1>0, <1>5, <2>2, <2>4, <2>6 DEF Agree, Mismatch
  <2> QED
    BY <1>0, <1>2, <1>3, <1>5, <2>1, <2>2, <2>7, SeatGuardedAuth
<1>6. CASE MakerFailed(t)
  <2>1. PICK b \in BOOLEAN : b = ~seat[t].retired
    <3>1. (~seat[t].retired) \in BOOLEAN
      BY DEF SeatBase, TablesTyped, SeatSet
    <3> QED
      BY <3>1
  <2>2. MarkFailed(l, b) /\ pane' = pane
    BY <1>6, <2>1 DEF MakerFailed
  <2>3. b \/ seat[t].retired
    BY <2>1
  <2> QED
    BY <1>4, <2>2, <2>3
<1>7. CASE MakerCommit(t)
  <2>1. CASE seat[t].retired
    <3>1. MarkFailed(l, FALSE) /\ pane' = [pane EXCEPT ![t] = 0]
      BY <1>7, <2>1 DEF MakerCommit
    <3> QED
      BY <1>4, <2>1, <3>1
  <2>2. CASE ~seat[t].retired
    BY <1>5, <1>7, <2>2 DEF MakerCommit
  <2> QED
    BY <2>1, <2>2
<1> QED
  BY <1>6, <1>7

LEMMA SeatAuthRestore ==
  ASSUME SeatBase, BaseKept, SeatAuth, ~Overlaps, NEW s \in Seats, RestoreBegin(s)
  PROVE  SeatAuth'
<1>0. /\ GuardFree /\ serving' = serving /\ maker' = maker /\ prov' = prov /\ pane' = pane
      /\ seatFaults' = seatFaults
      /\ seat[s].there /\ IsStopped(s) /\ held' = Op("restore", Len(launch) + 1, "kill")
      /\ maker[s] = Asleep
  BY DEF RestoreBegin
<1>1. PICK th \in Resumable(s) :
       /\ launch' = Append(launch, LaunchRecord("restore", s, th, 0, FALSE))
       /\ seat' = [seat EXCEPT ![s].thread = th,
                              ![s].cred = IF prov[s] = "codex-fork" THEN @ ELSE creds + 1]
  BY DEF RestoreBegin
<1> DEFINE y == LaunchRecord("restore", s, th, 0, FALSE)
           n == Len(launch) + 1
<1>2. th \in Nat /\ creds + 1 \in Nat /\ n \in Nat
  <2>1. Resumable(s) \subseteq Nat
    BY DEF Resumable, SeatBase, TablesTyped, SeatSet, HostTyped
  <2> QED
    BY <2>1, SeatRowTypes DEF SeatBase, HostTyped
<1>3. /\ seat'[s].status = seat[s].status
      /\ seat'[s].retired = seat[s].retired /\ seat'[s].there = seat[s].there
      /\ seat'[s].cred = IF prov[s] = "codex-fork" THEN seat[s].cred ELSE creds + 1
      /\ \A t \in Seats : t # s => seat'[t] = seat[t]
  <2>1. PICK x \in SeatSet : x = seat[s]
    BY DEF SeatBase, TablesTyped
  <2>2. PICK c \in Nat : c = IF prov[s] = "codex-fork" THEN x.cred ELSE creds + 1
    BY <1>2 DEF SeatSet
  <2>3. PICK w \in SeatSet : w = [x EXCEPT !.thread = th]
    BY <1>2, SeatFields
  <2>4. PICK z \in SeatSet : z = [w EXCEPT !.cred = c]
    BY SeatFields
  <2>5. /\ z.status = x.status /\ z.retired = x.retired /\ z.there = x.there /\ w.cred = x.cred
        /\ z.cred = c
    BY <2>3, <2>4 DEF SeatSet
  <2>6. seat' = [seat EXCEPT ![s] = z]
    BY <1>1, <2>1, <2>2, <2>3, <2>4, <2>5 DEF SeatBase, TablesTyped
  <2> QED
    BY <2>1, <2>2, <2>5, <2>6 DEF SeatBase, TablesTyped
<1>4. y \in LaunchSet /\ y.seat = s /\ y.cred = creds + 1 /\ launch' = Append(launch, y)
  BY <1>1, <1>2 DEF LaunchRecord, LaunchSet
<1> HIDE DEF y
<1>5. /\ launch'[n] = y /\ n \in DOMAIN launch'
      /\ \A i \in DOMAIN launch' : i \in DOMAIN launch \/ i = n
      /\ \A i \in DOMAIN launch : launch'[i] = launch[i]
  BY <1>4, SeatAppends DEF SeatBase, TablesTyped
<1>6. held'.op = "restore" /\ held'.l = n /\ held'.pc = "kill"
  BY <1>0 DEF Op
<1> HIDE DEF n
<1>7. held = NoOp /\ serving /\ ~Relaunch
  BY <1>0 DEF GuardFree, Relaunch, NoOp
<1>8. Target' = s /\ Cred' = creds + 1
  BY <1>4, <1>5, <1>6 DEF Target, Cred
<1>9. \A t \in Seats : ~Retiring(t)'
  BY <1>6 DEF Retiring
<1>10. SeatLocal(s)
  BY <1>0, <1>3, <1>4, <1>5, <1>7, <1>8, <1>9 DEF SeatLocal
<1>11. ~Making(s)' /\ HasLaunch(s)'
  BY <1>0, <1>4, <1>5 DEF Making, Asleep, HasLaunch
<1>12. HeldCred(s)'
  BY <1>0, <1>3, <1>6, <1>8 DEF HeldCred
<1>13. Agree(s)'
  <2>1. ~LiveSeat(s)' /\ IsStopped(s)'
    BY <1>0, <1>3 DEF LiveSeat, IsStopped
  <2>2. ~Pending(s) /\ AuthOf(s)
    BY <1>7 DEF Pending, NoOp, SeatAuth
  <2>3. prov[s] = "codex-fork" /\ seatFaults = 0 /\ Mismatch(s)' => seat[s].retired
    BY <1>0, <1>3, <2>2 DEF AuthOf, Agree, Mismatch
  <2> QED
    BY <1>0, <1>3, <2>1, <2>3 DEF Agree
<1>14. AuthOf(s)'
  BY <1>9, <1>11, <1>12, <1>13 DEF AuthOf
<1> QED
  BY <1>10, <1>14, SeatAuthFrom

LEMMA SeatAuthRetire ==
  ASSUME SeatBase, BaseKept, SeatAuth,
         (\E s \in Seats : RetireBegin(s)) \/ RetireKill \/ RetireCommit
  PROVE  SeatAuth'
<1>0. UNCHANGED <<prov, serving, maker>> /\ (seatFaults' = 0 => seatFaults = 0)
  BY SeatFaultCounts DEF RetireBegin, RetireKill, RetireCommit
<1>1. ASSUME NEW t \in Seats, LiveSeat(t), ~Relaunch, ~Relaunch',
             CredsKept, StatusLocal(t), held' = NoOp \/ Retiring(t)',
             \A s \in Seats : s # t => seat'[s] = seat[s] /\ pane'[s] = pane[s],
             Agree(t)', Retiring(t)' => LiveSeat(t)'
      PROVE  SeatAuth'
  <2>1. LaunchKept(launch, launch')
    BY DEF BaseKept, TablesMove
  <2>2. \A s \in Seats : s # t => ~Retiring(s)'
    BY <1>1 DEF Retiring, NoOp
  <2>3. SeatLocal(t)
    BY <1>0, <1>1, <2>1, <2>2 DEF SeatLocal, CredsKept, StatusLocal, LaunchKept
  <2>4. ~Making(t)'
    BY <1>0, <1>1, SeatNotMaking DEF Making
  <2>5. HasLaunch(t)'
    <3>1. HasLaunch(t)
      BY <1>1 DEF SeatAuth, AuthOf, LiveSeat
    <3> QED
      BY <2>1, <3>1 DEF HasLaunch, LaunchKept
  <2>6. HeldCred(t)'
    BY <1>1 DEF HeldCred
  <2>7. AuthOf(t)'
    BY <1>1, <2>4, <2>5, <2>6 DEF AuthOf
  <2> QED
    BY <2>3, <2>7, SeatAuthFrom
<1>2. ASSUME NEW t \in Seats, RetireBegin(t)
      PROVE  SeatAuth'
  <2>1. /\ GuardFree /\ LiveSeat(t) /\ held' = [op |-> "retire", l |-> t, pc |-> "kill"]
        /\ UNCHANGED <<seat, launch, pane, seatFaults>>
    BY <1>2 DEF RetireBegin
  <2>2. ~Relaunch /\ ~Relaunch' /\ Retiring(t)' /\ ~Pending(t) /\ AuthOf(t)
    BY <2>1 DEF GuardFree, Relaunch, Retiring, NoOp, Pending, SeatAuth
  <2>3. Agree(t)' /\ LiveSeat(t)'
    BY <1>0, <2>1, <2>2 DEF AuthOf, Agree, Mismatch, LiveSeat, IsStopped
  <2> QED
    BY <1>1, <2>1, <2>2, <2>3, SeatSameRows
<1>3. CASE RetireKill
  <2>1. PICK t \in Seats : Retiring(t)
    BY <1>3 DEF RetireKill, SeatBase, HeldRight, Relaunch, NoOp
  <2>2. /\ LiveSeat(t) /\ AuthOf(t) /\ held.l = t /\ held.op = "retire" /\ ~Relaunch
        /\ UNCHANGED <<seat, launch>>
    BY <1>3, <2>1 DEF SeatAuth, AuthOf, Retiring, Relaunch, RetireKill
  <2>3. /\ \A s \in Seats : s # t => pane'[s] = pane[s]
        /\ pane'[t] \in {0, pane[t]}
    BY <1>3, <2>2 DEF RetireKill, SeatBase, HostTyped
  <2>4. (held' = NoOp \/ Retiring(t)') /\ ~Relaunch' /\ LiveSeat(t)'
    BY <1>3, <2>2 DEF RetireKill, Step, Done, SeatBase, MemoryTyped, HeldSet, Retiring, Relaunch, NoOp,
       LiveSeat, IsStopped
  <2>5. Agree(t)'
    <3>1. Pending(t) => Pending(t)'
      BY <1>0, <2>2 DEF Pending
    <3> QED
      BY <1>0, <2>2, <2>3, <3>1 DEF AuthOf, Agree, Mismatch, LiveSeat, IsStopped
  <2> QED
    BY <1>1, <2>2, <2>3, <2>4, <2>5, SeatSameRows
<1>4. CASE RetireCommit
  <2>1. PICK t \in Seats : Retiring(t)
    BY <1>4 DEF RetireCommit, SeatBase, HeldRight, Relaunch, NoOp
  <2>2. /\ LiveSeat(t) /\ held.l = t /\ ~Relaunch /\ held' = NoOp /\ pane' = pane
        /\ launch' = FinalLaunch(t)
        /\ seat' = [seat EXCEPT ![t].status = "stopped", ![t].retired = TRUE]
    BY <1>4, <2>1 DEF SeatAuth, AuthOf, Retiring, Relaunch, RetireCommit, Done
  <2>3. /\ \A s \in Seats : s # t => seat'[s] = seat[s]
        /\ seat'[t].retired
    BY <2>2 DEF SeatBase, TablesTyped, SeatSet
  <2>4. ~Relaunch' /\ ~Retiring(t)'
    BY <2>2 DEF Retiring, Relaunch, NoOp
  <2>5. Agree(t)'
    BY <2>3 DEF Agree, LiveSeat, IsStopped
  <2> QED
    BY <1>1, <2>2, <2>3, <2>4, <2>5, SeatFinalLocal
<1> QED
  BY <1>2, <1>3, <1>4

LEMMA SeatAuthRecover ==
  ASSUME SeatBase, BaseKept, SeatAuth, held = NoOp, NEW l \in DOMAIN launch,
         serving => launch[l].kind = "recredential", Recover(l),
         UNCHANGED <<prov, maker, serving>>
  PROVE  SeatAuth'
<1>0. PICK t \in Seats : t = launch[l].seat
  BY SeatRowTypes DEF SeatBase, LaunchSet
<1>1. ~Making(t)'
  <2>1. ~Making(t)
    BY <1>0, SeatNotMaking
  <2> QED
    BY <2>1 DEF Making
<1>2. LaunchKept(launch, launch') /\ ~Relaunch /\ \A s \in Seats : ~Retiring(s)
  BY DEF BaseKept, TablesMove, Relaunch, Retiring, NoOp
<1>3. HasLaunch(t)'
  BY <1>0, <1>2 DEF HasLaunch, LaunchKept
<1>4. seatFaults' = 0 => seatFaults = 0
  BY SeatFaultCounts DEF Recover
<1>5. ASSUME held' = held, CredsKept, StatusLocal(t), Agree(t)',
             \A s \in Seats : s # t => seat'[s] = seat[s] /\ pane'[s] = pane[s]
      PROVE  SeatAuth'
  <2>1. SeatLocal(t)
    BY <1>2, <1>4, <1>5 DEF SeatLocal, CredsKept, StatusLocal, LaunchKept, Retiring
  <2>2. HeldCred(t)' /\ ~Retiring(t)'
    BY <1>2, <1>5 DEF HeldCred, Relaunch, Retiring
  <2>3. AuthOf(t)'
    BY <1>1, <1>3, <1>5, <2>2 DEF AuthOf
  <2> QED
    BY <2>1, <2>3, SeatAuthFrom
<1>6. CASE /\ ~Recoverable(l) /\ MarkFailed(l, MayHaveSpoken(l) /\ launch[l].kind = "create")
           /\ UNCHANGED <<held, pane>>
  <2>1. PICK b \in BOOLEAN : b = (MayHaveSpoken(l) /\ launch[l].kind = "create")
    OBVIOUS
  <2>2. MarkFailed(l, b)
    BY <1>6, <2>1
  <2>3. CredsKept /\ StatusLocal(t)
    BY <1>0, <2>2, SeatFailsLocal
  <2>4. /\ \A s \in Seats : s # t => seat'[s] = seat[s]
        /\ seat'[t].status = "stopped"
        /\ ~seat'[t].there \/ (seat'[t].there = seat[t].there /\ seat'[t].retired = seat[t].retired)
    BY <1>0, <2>2, SeatFailsSeat
  <2>5. prov[t] = "codex-fork" /\ seat[t].there => seat[t].retired
    BY <1>0, <1>6 DEF Recoverable, MayHaveSpoken
  <2>6. Agree(t)'
    BY <2>4, <2>5 DEF Agree, Mismatch, LiveSeat, IsStopped
  <2> QED
    BY <1>5, <1>6, <2>3, <2>4, <2>6
<1>7. CASE ForkRestore(l) /\ pane' = [pane EXCEPT ![t] = 0] /\ MarkFailed(l, FALSE) /\ held' = held
  <2>1. CredsKept /\ StatusLocal(t)
    BY <1>0, <1>7, SeatFailsLocal
  <2>2. \A s \in Seats : s # t => seat'[s] = seat[s]
    BY <1>0, <1>7, SeatFailsSeat
  <2>3. pane'[t] = 0 /\ \A s \in Seats : s # t => pane'[s] = pane[s]
    BY <1>7 DEF SeatBase, HostTyped
  <2>4. Agree(t)'
    BY <2>3 DEF Agree, Mismatch
  <2> QED
    BY <1>5, <1>7, <2>1, <2>2, <2>3, <2>4
<1>8. CASE ForkRestore(l) /\ Fault /\ pane' = pane /\ MarkInconclusive(l) /\ held' = held
  <2>1. CredsKept /\ StatusLocal(t)
    <3>1. "failed" \in {"launching", "applied", "failed"}
      OBVIOUS
    <3> QED
      BY <1>0, <1>8, <3>1, SeatRowLocal DEF MarkInconclusive
  <2>2. \A s \in Seats : s # t => seat'[s] = seat[s]
    BY <1>0, <1>8 DEF MarkInconclusive, SeatBase, TablesTyped
  <2>3. prov[t] = "codex-fork" /\ seatFaults' # 0
    BY <1>0, <1>8, SeatFaultCounts DEF ForkRestore
  <2>4. Agree(t)'
    BY <2>3 DEF Agree
  <2> QED
    BY <1>5, <1>8, <2>1, <2>2, <2>4
<1>9. CASE /\ Reissue(l) /\ held' = Op("recover", l, "kill") /\ UNCHANGED <<rot, pane>>
  <2>1. /\ DOMAIN launch' = DOMAIN launch
        /\ \A i \in DOMAIN launch : launch'[i].status = launch[i].status
        /\ launch'[l].cred = creds + 1
    BY <1>9, SeatReissued DEF SeatBase, HostTyped
  <2>2. \A i \in DOMAIN launch : i # l => launch'[i] = launch[i]
    BY <1>9 DEF Reissue, SeatBase, TablesTyped
  <2>3. /\ \A s \in Seats : s # t => seat'[s] = seat[s]
        /\ seat'[t].status = "stopped" /\ seat'[t].cred = creds + 1
    BY <1>0, <1>9 DEF Reissue, SeatBase, TablesTyped, SeatSet
  <2>4. held'.op = "recover" /\ held'.l = l /\ held'.pc = "kill"
    BY <1>9 DEF Op
  <2>5. Target' = t /\ Cred' = creds + 1
    BY <1>0, <1>2, <2>1, <2>4 DEF Target, Cred, LaunchKept
  <2>6. \A s \in Seats : ~Retiring(s)'
    BY <2>4 DEF Retiring
  <2>7. SeatLocal(t)
    BY <1>0, <1>2, <1>4, <1>9, <2>1, <2>2, <2>3, <2>5, <2>6 DEF SeatLocal, LaunchKept
  <2>8. HeldCred(t)'
    BY <2>3, <2>4, <2>5 DEF HeldCred
  <2>9. Agree(t)'
    BY <2>3, <2>4, <2>5 DEF Agree, LiveSeat, IsStopped, Pending
  <2>10. AuthOf(t)'
    BY <1>1, <1>3, <2>6, <2>8, <2>9 DEF AuthOf
  <2> QED
    BY <2>7, <2>10, SeatAuthFrom
<1> QED
  BY <1>0, <1>6, <1>7, <1>8, <1>9 DEF Recover

LEMMA SeatAuthStartup ==
  ASSUME SeatBase, BaseKept, SeatAuth, StartupRecover \/ StartupDone \/ Crash
  PROVE  SeatAuth'
<1>1. CASE StartupRecover
  <2>1. Unfinished \subseteq DOMAIN launch /\ Unfinished \subseteq Nat /\ Unfinished # {}
    BY <1>1, SeatRowTypes DEF SeatBase, StartupRecover, Unfinished
  <2>2. PICK l \in Unfinished : l = Min(Unfinished)
    BY <2>1, SeatLeast
  <2>3. l \in DOMAIN launch /\ Recover(l)
    BY <1>1, <2>2 DEF StartupRecover, Unfinished
  <2> QED
    BY <1>1, <2>3, SeatAuthRecover DEF StartupRecover
<1>2. CASE StartupDone
  <2>1. /\ UNCHANGED <<prov, seat, launch, pane, held, maker, seatFaults>>
        /\ ~serving /\ serving' /\ held = NoOp /\ Unfinished = {}
    BY <1>2 DEF StartupDone
  <2>2. ASSUME NEW s \in Seats PROVE AuthOf(s)'
    <3>1. AuthOf(s) /\ ~Making(s)
      BY <2>1, SeatNotMaking DEF SeatAuth
    <3>2. ~Pending(s)
      BY <2>1 DEF Pending, NoOp, Unfinished
    <3>3. Agree(s)'
      BY <2>1, <3>1, <3>2 DEF AuthOf, Agree, Mismatch, LiveSeat, IsStopped
    <3>4. HeldCred(s)' /\ ~Retiring(s)' /\ ~Making(s)'
      BY <2>1, <3>1 DEF HeldCred, Relaunch, Retiring, NoOp, Making
    <3>5. (~HasLaunch(s) => pane[s] = 0 /\ ~seat[s].there)'
      BY <2>1, <3>1 DEF AuthOf, HasLaunch
    <3> QED
      BY <3>3, <3>4, <3>5 DEF AuthOf
  <2> QED
    BY <2>2 DEF SeatAuth
<1>3. CASE Crash
  <2>1. /\ UNCHANGED <<prov, seat, launch, pane, seatFaults>>
        /\ ~serving' /\ held' = NoOp /\ maker' = [s \in Seats |-> Asleep]
    BY <1>3 DEF Crash
  <2>2. ASSUME NEW s \in Seats PROVE AuthOf(s)'
    <3>1. AuthOf(s)
      BY DEF SeatAuth
    <3>2. Pending(s) => Pending(s)'
      <4>1. CASE held.op \in {"rotate", "recover"} /\ Target = s
        <5>1. Relaunch
          BY <4>1 DEF Relaunch
        <5>2. held.l \in DOMAIN launch /\ launch[held.l].status = "launching"
              /\ launch[held.l].seat = s
          BY <4>1, <5>1, SeatTarget DEF RelaunchRight, Target
        <5> QED
          BY <2>1, <5>2 DEF Pending
      <4>2. CASE \E i \in DOMAIN launch : launch[i].seat = s /\ launch[i].status = "launching"
        BY <2>1, <4>2 DEF Pending
      <4> QED
        BY <4>1, <4>2 DEF Pending
    <3>3. Agree(s)'
      BY <2>1, <3>1, <3>2 DEF AuthOf, Agree, Mismatch, LiveSeat, IsStopped
    <3>4. HeldCred(s)' /\ ~Retiring(s)' /\ ~Making(s)'
      BY <2>1 DEF HeldCred, Relaunch, Retiring, NoOp, Making, Asleep
    <3>5. (~HasLaunch(s) => pane[s] = 0 /\ ~seat[s].there)'
      BY <2>1, <3>1 DEF AuthOf, HasLaunch
    <3> QED
      BY <3>3, <3>4, <3>5 DEF AuthOf
  <2> QED
    BY <2>2 DEF SeatAuth
<1> QED
  BY <1>1, <1>2, <1>3

LEMMA SeatAuthFence ==
  ASSUME SeatBase, BaseKept, SeatAuth, NEW s \in Seats, WorkerFence(s)
  PROVE  SeatAuth'
<1>1. /\ GuardFree /\ worker[s].pc = "fence"
      /\ UNCHANGED <<prov, pane, maker, serving, seatFaults>>
  BY SeatFenceCases
<1>2. CASE RotationBegins(s, worker[s].l)
  <2> DEFINE n == Len(launch) + 1
             y == LaunchRecord("recredential", s, rot[worker[s].l].thread, worker[s].l, FALSE)
  <2>1. /\ n \in DOMAIN launch' /\ launch'[n] = y /\ y.seat = s /\ y.cred = creds + 1
        /\ \A i \in DOMAIN launch' : i \in DOMAIN launch \/ i = n
        /\ \A i \in DOMAIN launch : launch'[i] = launch[i]
        /\ held'.op = "rotate" /\ held'.l = n /\ held'.pc = "kill"
        /\ seat'[s].status = "stopped" /\ seat'[s].cred = creds + 1
        /\ \A t \in Seats : t # s => seat'[t] = seat[t]
    BY <1>1, <1>2, SeatFenceFacts
  <2> HIDE DEF n, y
  <2>2. launch'[n].seat = s /\ launch'[n].cred = creds + 1
    BY <2>1
  <2>3. ~Making(s)'
    <3>1. ~Making(s)
      BY <1>2, SeatNotMaking DEF RotationBegins
    <3> QED
      BY <1>1, <3>1 DEF Making
  <2>4. Target' = s /\ Cred' = creds + 1 /\ ~Relaunch
    BY <1>1, <2>1, <2>2 DEF Target, Cred, GuardFree, Relaunch, NoOp
  <2>5. \A t \in Seats : ~Retiring(t)'
    BY <2>1, <2>2 DEF Retiring
  <2>6. SeatLocal(s)
    BY <1>1, <2>1, <2>2, <2>4, <2>5 DEF SeatLocal
  <2>7. HeldCred(s)' /\ HasLaunch(s)'
    BY <2>1, <2>2, <2>4 DEF HeldCred, HasLaunch
  <2>8. Agree(s)'
    BY <2>1, <2>2, <2>4 DEF Agree, LiveSeat, IsStopped, Pending
  <2>9. AuthOf(s)'
    BY <2>3, <2>5, <2>7, <2>8 DEF AuthOf
  <2> QED
    BY <2>6, <2>9, SeatAuthFrom
<1>3. CASE ~RotationBegins(s, worker[s].l)
  <2>1. /\ held' = held
        /\ \/ launch' = launch /\ seat' = seat
           \/ launch' = FinalLaunch(s) /\ seat' = [seat EXCEPT ![s].status = "stopped"]
           \/ launch' = FinalLaunch(s) /\ seat' = seat
    BY <1>3, SeatFenceCases DEF MarkMissing
  <2>2. CredsKept /\ StatusLocal(s)
    BY <2>1, SeatFinalLocal, SeatSameRows
  <2>3. /\ \A t \in Seats : t # s => seat'[t] = seat[t]
        /\ seat'[s].cred = seat[s].cred /\ seat'[s].there = seat[s].there
        /\ seat'[s].retired = seat[s].retired
        /\ seat'[s].status = seat[s].status \/ seat'[s].status = "stopped"
    BY <2>1, SeatStopWritten
  <2> QED
    BY <1>1, <2>1, <2>2, <2>3, SeatQuietAuth
<1> QED
  BY <1>2, <1>3

LEMMA SeatAuthWorkerRecover ==
  ASSUME SeatBase, BaseKept, SeatAuth, NEW s \in Seats, WorkerRecover(s)
  PROVE  SeatAuth'
<1> DEFINE l == worker[s].l
<1>0. /\ GuardFree /\ l \in DOMAIN launch /\ launch[l].kind = "recredential" /\ launch[l].seat = s
      /\ UNCHANGED <<prov, maker, serving>>
  BY DEF WorkerRecover, SeatBase, WorkerRight
<1>1. CASE launch[l].status = "launching"
  BY <1>0, <1>1, SeatAuthRecover DEF WorkerRecover, GuardFree
<1>2. CASE launch[l].status # "launching"
  <2>1. UNCHANGED <<seat, launch, pane, held, seatFaults>>
    BY <1>2 DEF WorkerRecover
  <2> QED
    BY <1>0, <2>1, SeatSameRows, SeatQuietAuth
<1> QED
  BY <1>1, <1>2

LEMMA SeatAuthStep ==
  ASSUME SeatBase, SeatAuth, ~Overlaps, [SeatNext]_seatVars
  PROVE  SeatAuth'
<1>0. BaseKept
  BY SeatBaseStep
<1>1. CASE HeldStep \/ StartupRecover \/ StartupDone \/ Crash
  BY <1>0, <1>1, SeatAuthRetire, SeatAuthKill, SeatAuthStart, SeatAuthVerify, SeatAuthCheck,
     SeatAuthCommit, SeatAuthStartup DEF HeldStep
<1>2. ASSUME NEW s \in Seats, CreateBegin(s) \/ MakerStep(s) \/ RestoreBegin(s) \/ RetireBegin(s)
                              \/ RequestRotation(s) \/ WorkerStep(s)
      PROVE  SeatAuth'
  BY <1>0, <1>2, SeatAuthCreate, SeatAuthMakerStart, SeatAuthAside, SeatAuthMakerEnds,
     SeatAuthRestore, SeatAuthRetire, SeatAuthRequest, SeatAuthLook, SeatAuthFinal, SeatAuthFence,
     SeatAuthWorkerRecover DEF MakerStep, WorkerStep
<1>3. ASSUME NEW s \in Seats,
             ClearBegin(s) \/ ClearType(s) \/ ClearCommit(s) \/ BindCodex(s)
             \/ TurnEnds(s) \/ TurnStarts(s) \/ ForkExits(s) \/ SendMissing(s) \/ Revive(s)
             \/ PaneDies(s)
      PROVE  SeatAuth'
  BY <1>0, <1>3, SeatAuthAside, SeatAuthLook, SeatAuthTurns, SeatAuthFinal
<1>4. CASE UNCHANGED seatVars
  BY <1>4 DEF seatVars, SeatAuth, AuthOf, Making, Alone, HeldCred, Agree, Mismatch, Pending, Relaunch,
     Target, Cred, LiveSeat, IsStopped, Retiring, HasLaunch
<1> QED
  BY <1>1, <1>2, <1>3, <1>4 DEF SeatNext

LEMMA SeatInitAuth ==
  ASSUME SeatInit
  PROVE  SeatAuth
<1>1. /\ pane = [s \in Seats |-> 0] /\ held = NoOp /\ maker = [s \in Seats |-> Asleep]
      /\ seat = [s \in Seats |-> NoSeat]
  BY DEF SeatInit
<1>2. ASSUME NEW s \in Seats PROVE AuthOf(s)
  <2>1. ~Making(s)
    BY <1>1 DEF Making, Asleep
  <2>2. HeldCred(s) /\ ~Retiring(s)
    BY <1>1 DEF HeldCred, Relaunch, Retiring, NoOp
  <2>3. pane[s] = 0 /\ ~seat[s].there
    BY <1>1 DEF NoSeat
  <2>4. Agree(s)
    BY <2>3 DEF Agree, Mismatch
  <2> QED
    BY <2>1, <2>2, <2>3, <2>4 DEF AuthOf
<1> QED
  BY <1>2 DEF SeatAuth

\* SeatConsistent for every set of seats and every bound on launches, rotations, conversations,
\* faults and crashes, when no seat is restored while it is still being created: the runtime of a
\* live seat has the credential the registry knows, and a rotation under way has its launch.
THEOREM SeatsConsistent ==
  ASSUME ~Overlaps
  PROVE  SeatSpec => []SeatConsistent
<1>1. SeatInit => SeatBase /\ SeatAuth
  BY SeatInitBase, SeatInitAuth
<1>2. SeatBase /\ SeatAuth /\ [SeatNext]_seatVars => (SeatBase /\ SeatAuth)'
  BY SeatBaseStep, SeatAuthStep DEF BaseKept
<1>3. SeatBase /\ SeatAuth => RuntimeAuthenticates
  <2> SUFFICES ASSUME SeatBase, SeatAuth, NEW s \in Seats, LiveSeat(s), pane[s] # 0,
                      prov[s] = "codex-fork" => seatFaults = 0
               PROVE  pane[s] = seat[s].cred
    BY DEF RuntimeAuthenticates
  <2>1. Agree(s)
    BY DEF SeatAuth, AuthOf
  <2> QED
    BY <2>1 DEF Agree, Mismatch, LiveSeat
<1>4. SeatSpec => [](SeatBase /\ SeatAuth)
  BY <1>1, <1>2, PTL DEF SeatSpec
<1>5. SeatSpec => []RotationBacked
  BY RotationsBacked
<1> QED
  BY <1>3, <1>4, <1>5, PTL DEF SeatConsistent

-----------------------------------------------------------------------------
(* Which steps start a runtime *)

\* Two steps start one: the first of a create handler, and the start of a relaunch.
LEMMA SeatStarts ==
  ASSUME SeatBase, [SeatNext]_seatVars, NEW s \in Seats, pane'[s] # pane[s], pane'[s] # 0
  PROVE  MakerStart(s) \/ (StartNew /\ Target = s)
<1>0. pane \in [Seats -> Nat]
  BY DEF SeatBase, HostTyped
<1>1. CASE HeldStep
  <2>1. CASE RetireKill
    BY <1>0, <2>1 DEF RetireKill
  <2>2. CASE KillOld
    BY <1>0, <2>2 DEF KillOld
  <2>3. CASE StartNew
    BY <1>0, <2>3 DEF StartNew
  <2>4. CASE Verify
    BY <1>0, <2>4 DEF Verify
  <2> QED
    BY <1>1, <2>1, <2>2, <2>3, <2>4 DEF HeldStep, RetireCommit, CheckRotated, CommitLaunch
<1>2. ASSUME NEW l, Recover(l)
      PROVE  FALSE
  BY <1>0, <1>2 DEF Recover
<1>3. CASE StartupRecover \/ StartupDone \/ Crash
  BY <1>2, <1>3 DEF StartupRecover, StartupDone, Crash
<1>4. ASSUME NEW t \in Seats, MakerStep(t) \/ WorkerStep(t)
      PROVE  MakerStart(s)
  <2>1. CASE MakerStart(t)
    BY <1>0, <2>1 DEF MakerStart
  <2>2. CASE MakerWait(t)
    BY <1>0, <2>2 DEF MakerWait
  <2>3. CASE MakerCommit(t)
    BY <1>0, <2>3 DEF MakerCommit
  <2>4. CASE WorkerRecover(t)
    BY <1>2, <2>4 DEF WorkerRecover
  <2> QED
    BY <1>4, <2>1, <2>2, <2>3, <2>4 DEF MakerStep, WorkerStep, MakerFailed, StartWorker, WorkerLook,
       WorkerFinal, WorkerFence, WorkerExit
<1>5. ASSUME NEW t \in Seats, CreateBegin(t) \/ RestoreBegin(t) \/ RetireBegin(t) \/ RequestRotation(t)
      PROVE  FALSE
  BY <1>5, Zenon DEF CreateBegin, RestoreBegin, RetireBegin, RequestRotation
<1>6. ASSUME NEW t \in Seats,
             ClearBegin(t) \/ ClearType(t) \/ ClearCommit(t) \/ BindCodex(t)
             \/ TurnEnds(t) \/ TurnStarts(t) \/ ForkExits(t) \/ SendMissing(t) \/ Revive(t)
      PROVE  FALSE
  BY <1>6 DEF ClearBegin, ClearType, ClearCommit, BindCodex, TurnEnds, TurnStarts, ForkExits,
     SendMissing, Revive
<1>7. ASSUME NEW t \in Seats, PaneDies(t)
      PROVE  FALSE
  BY <1>0, <1>7 DEF PaneDies
<1>8. CASE UNCHANGED seatVars
  BY <1>8 DEF seatVars
<1> QED
  BY <1>1, <1>3, <1>4, <1>5, <1>6, <1>7, <1>8 DEF SeatNext

\* RetiredStaysDown for every set of seats and every bound, when no seat is restored while it is
\* still being created: a runtime comes up for a retired seat only as the seat's own restore.
THEOREM RetiredSeatsStayDown ==
  ASSUME ~Overlaps
  PROVE  SeatSpec => RetiredStaysDown
<1>1. SeatInit => SeatBase /\ SeatAuth
  BY SeatInitBase, SeatInitAuth
<1>2. SeatBase /\ SeatAuth /\ [SeatNext]_seatVars => (SeatBase /\ SeatAuth)'
  BY SeatBaseStep, SeatAuthStep DEF BaseKept
<1>3. SeatBase /\ SeatAuth /\ [SeatNext]_seatVars =>
        [\A s \in Seats : seat[s].retired /\ pane[s] = 0 /\ pane'[s] # 0 =>
           /\ held.op \in {"restore", "recover"}
           /\ Target = s /\ launch[held.l].kind = "restore"]_seatVars
  <2> SUFFICES ASSUME SeatBase, SeatAuth, [SeatNext]_seatVars, NEW s \in Seats, seat[s].retired,
                      pane[s] = 0, pane'[s] # 0
               PROVE  /\ held.op \in {"restore", "recover"}
                      /\ Target = s /\ launch[held.l].kind = "restore"
    OBVIOUS
  <2>1. ~MakerStart(s)
    BY DEF MakerStart, SeatAuth, AuthOf, Making, Alone
  <2>2. StartNew /\ Target = s
    BY <2>1, SeatStarts
  <2>3. Relaunch
    BY <2>2, SeatPcRelaunches DEF StartNew
  <2>4. RelaunchRight
    BY <2>3, SeatTarget
  <2> QED
    BY <2>2, <2>3, <2>4 DEF RelaunchRight, Relaunch
<1> QED
  BY <1>1, <1>2, <1>3, PTL DEF SeatSpec, RetiredStaysDown

-----------------------------------------------------------------------------
(* Conversations, as long as nothing has failed or crashed *)

Calm == seatFaults = 0 /\ seatCrashes = 0

\* A clear that has not typed yet, or a search after a create
Typing == {"none", "rebind", "type"}

\* The record of a live Codex seat has the conversation of its runtime, or none yet.
Bound(s) ==
  prov[s] = "codex" /\ LiveSeat(s) /\ clearer[s].pc \in Typing => seat[s].thread \in {0, conv[s]}

MakerBound(s) ==
  prov[s] = "codex" /\ maker[s].pc # "none" =>
    clearer[s].pc = "none" /\ (maker[s].pc = "commit" => maker[s].th \in {0, conv[s]})

\* A relaunched runtime has the conversation of its launch.
Resumed(s) ==
  prov[s] = "codex" /\ Relaunch /\ Target = s /\ held.pc \notin {"kill", "start"}
  /\ clearer[s].pc \in Typing => conv[s] = launch[held.l].thread

\* An idle report that is newer than a rotation's request names the conversation of a fork.
IdleBound(s) ==
  prov[s] = "codex-fork" /\ LiveSeat(s) /\ seat[s].status = "idle" /\ seat[s].proof
  /\ ActiveOf(s) # {} /\ clearer[s].pc \in Typing => seat[s].thread = conv[s]

\* A stopped fork has no rotation under way, except while that rotation has stopped it.
Ended(s) ==
  prov[s] = "codex-fork" /\ seat[s].there /\ IsStopped(s) /\ ActiveOf(s) # {} =>
    held.op \in {"rotate", "recover"} /\ Target = s

Rotating(s) ==
  prov[s] # "claude" /\ held.op = "rotate" /\ held.pc \in {"kill", "start"} /\ Target = s =>
    launch[held.l].thread = conv[s]

ClearKnown(s) ==
  /\ clearer[s].pc # "bind"
  /\ ~HasLaunch(s) => clearer[s].pc = "none" /\ \A r \in DOMAIN rot : rot[r].seat # s

ThreadOf(s) ==
  /\ Bound(s) /\ MakerBound(s) /\ Resumed(s) /\ IdleBound(s) /\ Ended(s) /\ Rotating(s)
  /\ ClearKnown(s)

RowThreads ==
  /\ \A i \in DOMAIN launch : launch[i].kind # "create" => launch[i].thread # 0
  /\ \A r \in DOMAIN rot : rot[r].thread # 0

Threads == serving /\ RowThreads /\ \A s \in Seats : ThreadOf(s)

\* What the other seats need of a step on one seat
ThreadLocal(t) ==
  /\ prov' = prov
  /\ \A s \in Seats : s # t => /\ seat'[s] = seat[s] /\ maker'[s] = maker[s]
                               /\ clearer'[s] = clearer[s] /\ conv'[s] = conv[s]
  /\ \A r \in DOMAIN rot' : rot'[r].seat # t =>
       r \in DOMAIN rot /\ (rot'[r].status \in ActiveRotation => rot[r].status \in ActiveRotation)
  /\ held' = held \/ ((Relaunch => Target = t) /\ (Relaunch' => Target' = t))

RowsFine ==
  /\ \A i \in DOMAIN launch' : i \in DOMAIN launch \/ launch'[i].kind = "create" \/ launch'[i].thread # 0
  /\ \A r \in DOMAIN rot' : r \in DOMAIN rot \/ rot'[r].thread # 0

LEMMA SeatThreadOthers ==
  ASSUME SeatBase, BaseKept, Threads, NEW t \in Seats, NEW s \in Seats, s # t, ThreadLocal(t)
  PROVE  ThreadOf(s)'
<1>0. /\ seat'[s] = seat[s] /\ maker'[s] = maker[s] /\ clearer'[s] = clearer[s] /\ conv'[s] = conv[s]
      /\ prov' = prov /\ ThreadOf(s)
  BY DEF ThreadLocal, Threads
<1>1. LaunchKept(launch, launch') /\ RotKept(rot, rot')
  BY DEF BaseKept, TablesMove
<1>2. Relaunch' /\ Target' = s => held' = held /\ Relaunch /\ Target = s
                                  /\ launch'[held.l].thread = launch[held.l].thread
  <2> SUFFICES ASSUME Relaunch', Target' = s
               PROVE  held' = held /\ Relaunch /\ Target = s
                      /\ launch'[held.l].thread = launch[held.l].thread
    OBVIOUS
  <2>1. held' = held
    BY DEF ThreadLocal
  <2>2. Relaunch
    BY <2>1 DEF Relaunch
  <2>3. held.l \in DOMAIN launch
    BY <2>2, SeatTarget
  <2> QED
    BY <1>1, <2>1, <2>2, <2>3 DEF Target, LaunchKept
<1>3. Relaunch /\ Target = s => held' = held /\ Target' = s
  <2> SUFFICES ASSUME Relaunch, Target = s PROVE held' = held /\ Target' = s
    OBVIOUS
  <2>1. held' = held
    BY DEF ThreadLocal
  <2>2. held.l \in DOMAIN launch
    BY SeatTarget
  <2> QED
    BY <1>1, <2>1, <2>2 DEF Target, LaunchKept
<1>4. \A r \in DOMAIN rot' : rot'[r].seat = s =>
        /\ r \in DOMAIN rot /\ rot[r].seat = s
        /\ rot'[r].status \in ActiveRotation => rot[r].status \in ActiveRotation
  BY <1>1 DEF ThreadLocal, RotKept
<1>5. ActiveOf(s)' # {} => ActiveOf(s) # {}
  BY <1>4 DEF ActiveOf
<1>6. LiveSeat(s)' <=> LiveSeat(s)
  BY <1>0 DEF LiveSeat, IsStopped
<1>7. Bound(s)' /\ MakerBound(s)' /\ IdleBound(s)'
  BY <1>0, <1>5, <1>6 DEF ThreadOf, Bound, MakerBound, IdleBound
<1>8. Resumed(s)'
  BY <1>0, <1>2 DEF ThreadOf, Resumed
<1>9. Rotating(s)'
  BY <1>0, <1>2 DEF ThreadOf, Rotating, Relaunch
<1>10. Ended(s)'
  BY <1>0, <1>3, <1>5 DEF ThreadOf, Ended, Relaunch, IsStopped
<1>11. ClearKnown(s)'
  <2>1. HasLaunch(s) => HasLaunch(s)'
    BY <1>1 DEF HasLaunch, LaunchKept
  <2> QED
    BY <1>0, <1>4, <2>1 DEF ThreadOf, ClearKnown
<1> QED
  BY <1>7, <1>8, <1>9, <1>10, <1>11 DEF ThreadOf

LEMMA SeatThreadsFrom ==
  ASSUME SeatBase, BaseKept, Threads, NEW t \in Seats, ThreadLocal(t), RowsFine, serving' = serving,
         ThreadOf(t)'
  PROVE  Threads'
<1>1. LaunchKept(launch, launch') /\ RotKept(rot, rot')
  BY DEF BaseKept, TablesMove
<1>2. RowThreads'
  BY <1>1 DEF RowThreads, RowsFine, LaunchKept, RotKept, Threads
<1> QED
  BY <1>2, SeatThreadOthers DEF Threads

\* How rotations end
RotsShrink ==
  \A r \in DOMAIN rot' :
    r \in DOMAIN rot /\ (rot'[r].status \in ActiveRotation => rot[r].status \in ActiveRotation)

LEMMA SeatRotsEnd ==
  ASSUME SeatBase, NEW t \in Seats, rot' = FinalRot(t)
  PROVE  RotsShrink /\ ActiveOf(t)' = {}
<1>1. DOMAIN rot' = DOMAIN rot
      /\ \A r \in DOMAIN rot :
           /\ rot'[r].seat = rot[r].seat
           /\ rot'[r].status = IF rot[r].seat = t /\ rot[r].status \in ActiveRotation
                               THEN "failed" ELSE rot[r].status
  BY SeatFinalRot DEF SeatBase
<1>2. "failed" \notin ActiveRotation
  BY DEF ActiveRotation
<1>3. RotsShrink
  BY <1>1, <1>2 DEF RotsShrink
<1>4. ASSUME NEW r \in DOMAIN rot', rot'[r].seat = t, rot'[r].status \in ActiveRotation
      PROVE  FALSE
  BY <1>1, <1>2, <1>4
<1> QED
  BY <1>3, <1>4 DEF ActiveOf

LEMMA SeatRotsApplied ==
  ASSUME SeatBase, NEW l \in DOMAIN launch, MarkApplied(l)
  PROVE  RotsShrink /\ DOMAIN launch' = DOMAIN launch
<1>1. DOMAIN rot' = DOMAIN rot
      /\ \A r \in DOMAIN rot : rot'[r] = IF r = launch[l].rot THEN [rot[r] EXCEPT !.status = "applied"]
                                                              ELSE rot[r]
  BY DEF MarkApplied
<1>2. \A r \in DOMAIN rot : rot[r] \in RotSet
  BY SeatRowTypes DEF SeatBase
<1>3. \A r \in DOMAIN rot : rot'[r].status = IF r = launch[l].rot THEN "applied" ELSE rot[r].status
  BY <1>1, <1>2 DEF RotSet
<1>4. RotsShrink
  BY <1>1, <1>3 DEF RotsShrink, ActiveRotation
<1> QED
  BY <1>4 DEF MarkApplied

\* A step that ends the rotations of a seat, or removes the seat, and lets go of the guard
LEMMA SeatThreadEnds ==
  ASSUME SeatBase, BaseKept, Threads, NEW t \in Seats, held' = NoOp, Relaunch => Target = t,
         prov' = prov, serving' = serving, conv' = conv, clearer' = clearer,
         \A s \in Seats : s # t => seat'[s] = seat[s] /\ maker'[s] = maker[s],
         maker'[t] = maker[t] \/ maker'[t].pc = "none",
         rot' = FinalRot(t) \/ (rot' = rot /\ ~seat'[t].there),
         seat'[t] = seat[t] \/ ~LiveSeat(t)', DOMAIN launch' = DOMAIN launch
  PROVE  Threads'
<1>1. ~Relaunch'
  BY DEF Relaunch, NoOp
<1>2. RotsShrink /\ (ActiveOf(t)' = {} \/ ~seat'[t].there)
  <2>1. CASE rot' = FinalRot(t)
    BY <2>1, SeatRotsEnd
  <2>2. CASE rot' = rot /\ ~seat'[t].there
    BY <2>2 DEF RotsShrink
  <2> QED
    BY <2>1, <2>2
<1>3. ThreadLocal(t) /\ RowsFine
  BY <1>1, <1>2 DEF ThreadLocal, RowsFine, RotsShrink
<1>4. ThreadOf(t)
  BY DEF Threads
<1>5. LiveSeat(t)' => seat'[t] = seat[t] /\ LiveSeat(t)
  BY DEF LiveSeat, IsStopped
<1>6. Bound(t)' /\ MakerBound(t)'
  BY <1>4, <1>5 DEF ThreadOf, Bound, MakerBound
<1>7. Resumed(t)' /\ Rotating(t)'
  BY <1>1 DEF Resumed, Rotating, Relaunch
<1>8. IdleBound(t)' /\ Ended(t)'
  <2>1. ~seat'[t].there => ~LiveSeat(t)'
    BY DEF LiveSeat
  <2> QED
    BY <1>2, <2>1 DEF IdleBound, Ended
<1>9. ClearKnown(t)'
  <2>1. HasLaunch(t) => HasLaunch(t)'
    BY DEF HasLaunch, BaseKept, TablesMove, LaunchKept
  <2>2. \A r \in DOMAIN rot' : rot'[r].seat = t => r \in DOMAIN rot /\ rot[r].seat = t
    BY <1>2 DEF RotsShrink, BaseKept, TablesMove, RotKept
  <2> QED
    BY <1>4, <2>1, <2>2 DEF ThreadOf, ClearKnown
<1>10. ThreadOf(t)'
  BY <1>6, <1>7, <1>8, <1>9 DEF ThreadOf
<1> QED
  BY <1>3, <1>10, SeatThreadsFrom

LEMMA SeatThreadFails ==
  ASSUME SeatBase, BaseKept, Threads, NEW l \in DOMAIN launch, NEW b \in BOOLEAN, MarkFailed(l, b),
         held' = NoOp, Relaunch => Target = launch[l].seat,
         prov' = prov, serving' = serving, conv' = conv, clearer' = clearer,
         \A s \in Seats : s # launch[l].seat => maker'[s] = maker[s],
         maker'[launch[l].seat] = maker[launch[l].seat] \/ maker'[launch[l].seat].pc = "none"
  PROVE  Threads'
<1>1. PICK t \in Seats : t = launch[l].seat
  BY SeatRowTypes DEF SeatBase, LaunchSet
<1>2. /\ \A s \in Seats : s # t => seat'[s] = seat[s]
      /\ seat'[t].status = "stopped" /\ (b => ~seat'[t].there)
  BY <1>1, SeatFailsSeat
<1>3. rot' = FinalRot(t) \/ (rot' = rot /\ ~seat'[t].there)
  BY <1>1, <1>2 DEF MarkFailed
<1>4. DOMAIN launch' = DOMAIN launch /\ ~LiveSeat(t)'
  BY <1>2, SeatFailsLocal DEF CredsKept, LiveSeat, IsStopped
<1> QED
  BY <1>1, <1>2, <1>3, <1>4, SeatThreadEnds

\* Steps that change nothing a conversation depends on
LEMMA SeatThreadSame ==
  ASSUME SeatBase, BaseKept, Threads,
         UNCHANGED <<prov, seat, launch, rot, conv, held, maker, clearer, serving>>
  PROVE  Threads'
<1>1. RowThreads'
  BY DEF Threads, RowThreads
<1>2. ASSUME NEW s \in Seats PROVE ThreadOf(s)'
  <2>1. ThreadOf(s)
    BY DEF Threads
  <2>2. (LiveSeat(s)' <=> LiveSeat(s)) /\ (IsStopped(s)' <=> IsStopped(s)) /\ Target' = Target
        /\ (Relaunch' <=> Relaunch) /\ ActiveOf(s)' = ActiveOf(s) /\ (HasLaunch(s)' <=> HasLaunch(s))
    BY DEF LiveSeat, IsStopped, Target, Relaunch, ActiveOf, HasLaunch
  <2>3. Bound(s)' /\ MakerBound(s)' /\ Resumed(s)'
    BY <2>1, <2>2 DEF ThreadOf, Bound, MakerBound, Resumed
  <2>4. IdleBound(s)' /\ Ended(s)' /\ Rotating(s)' /\ ClearKnown(s)'
    BY <2>1, <2>2 DEF ThreadOf, IdleBound, Ended, Rotating, ClearKnown
  <2> QED
    BY <2>3, <2>4 DEF ThreadOf
<1> QED
  BY <1>1, <1>2 DEF Threads

\* A step on one seat by somebody who has the guard only for that step
LEMMA SeatThreadFree ==
  ASSUME SeatBase, BaseKept, Threads, NEW t \in Seats, GuardFree, held' = held, prov' = prov,
         serving' = serving,
         \A s \in Seats : s # t => /\ seat'[s] = seat[s] /\ maker'[s] = maker[s]
                                   /\ clearer'[s] = clearer[s] /\ conv'[s] = conv[s],
         \A r \in DOMAIN rot' : rot'[r].seat # t =>
           r \in DOMAIN rot /\ (rot'[r].status \in ActiveRotation => rot[r].status \in ActiveRotation),
         RowsFine, Bound(t)', MakerBound(t)', IdleBound(t)', Ended(t)', ClearKnown(t)'
  PROVE  Threads'
<1>1. held = NoOp /\ ~Relaunch'
  BY DEF GuardFree, Relaunch, NoOp
<1>2. ThreadLocal(t)
  BY DEF ThreadLocal
<1>3. Resumed(t)' /\ Rotating(t)'
  BY <1>1 DEF Resumed, Rotating, Relaunch
<1>4. ThreadOf(t)'
  BY <1>3 DEF ThreadOf
<1> QED
  BY <1>2, <1>4, SeatThreadsFrom

\* No rotation of a stopped fork is under way while nobody holds the guard.
LEMMA SeatEndedFree ==
  ASSUME Threads, NEW t \in Seats, held.op \notin {"rotate", "recover"}, prov[t] = "codex-fork",
         seat[t].there, IsStopped(t)
  PROVE  ActiveOf(t) = {}
  BY DEF Threads, ThreadOf, Ended

LEMMA SeatCalmStep ==
  ASSUME SeatBase, Calm'
  PROVE  ~Fault
  BY SeatFaultCounts DEF Calm

LEMMA SeatThreadCreate ==
  ASSUME SeatBase, BaseKept, Threads, NEW s \in Seats, CreateBegin(s)
  PROVE  Threads'
<1>0. /\ GuardFree /\ UNCHANGED <<prov, rot, conv, held, clearer, serving>>
      /\ \A i \in DOMAIN launch : launch[i].seat # s
  BY DEF CreateBegin
<1>1. PICK brief \in BOOLEAN :
        LET th == IF brief THEN threads + 1 ELSE 0 IN
        /\ launch' = Append(launch, LaunchRecord("create", s, th, 0, brief))
        /\ seat' = [seat EXCEPT ![s] = [NoSeat EXCEPT !.there = TRUE, !.cred = creds + 1,
                                                     !.thread = th]]
  BY Zenon DEF CreateBegin
<1> DEFINE th == IF brief THEN threads + 1 ELSE 0
           y == LaunchRecord("create", s, th, 0, brief)
           x == [NoSeat EXCEPT !.there = TRUE, !.cred = creds + 1, !.thread = th]
<1>2. th \in Nat /\ creds + 1 \in Nat
  BY SeatRowTypes DEF SeatBase, HostTyped
<1>3. y \in LaunchSet /\ y.kind = "create" /\ y.seat = s /\ launch' = Append(launch, y)
  <2>1. launch' = Append(launch, y)
    BY <1>1
  <2> HIDE DEF th
  <2> QED
    BY <1>2, <2>1 DEF LaunchRecord, LaunchSet
<1>4. seat' = [seat EXCEPT ![s] = x] /\ x.status = "stopped"
  BY <1>1 DEF NoSeat
<1> HIDE DEF y, th, x
<1>5. /\ Len(launch) + 1 \in DOMAIN launch' /\ launch'[Len(launch) + 1] = y
      /\ \A i \in DOMAIN launch' : i \in DOMAIN launch \/ i = Len(launch) + 1
  BY <1>3, SeatAppends DEF SeatBase, TablesTyped
<1>6. seat'[s].status = "stopped" /\ \A t \in Seats : t # s => seat'[t] = seat[t]
  BY <1>4 DEF SeatBase, TablesTyped
<1>7. maker'[s].pc = "start" /\ \A t \in Seats : t # s => maker'[t] = maker[t]
  BY DEF CreateBegin, SeatBase, MemoryTyped
<1>8. ThreadOf(s) /\ clearer[s].pc = "none" /\ \A r \in DOMAIN rot : rot[r].seat # s
  BY <1>0 DEF Threads, ThreadOf, ClearKnown, HasLaunch
<1>9. RowsFine
  BY <1>0, <1>3, <1>5 DEF RowsFine
<1>10. ~LiveSeat(s)' /\ ActiveOf(s)' = {}
  BY <1>0, <1>6, <1>8 DEF LiveSeat, IsStopped, ActiveOf
<1>11. Bound(s)' /\ MakerBound(s)' /\ IdleBound(s)' /\ Ended(s)'
  BY <1>0, <1>7, <1>8, <1>10 DEF Bound, MakerBound, IdleBound, Ended
<1>12. ClearKnown(s)'
  BY <1>0, <1>8 DEF ClearKnown
<1> QED
  BY <1>0, <1>6, <1>7, <1>9, <1>11, <1>12, SeatThreadFree

LEMMA SeatThreadMakers ==
  ASSUME SeatBase, BaseKept, SeatAuth, Threads, Calm', NEW t \in Seats,
         MakerStart(t) \/ MakerWait(t)
  PROVE  Threads'
<1>0. UNCHANGED <<prov, seat, launch, rot, held, clearer, serving>>
  BY DEF MakerStart, MakerWait
<1>1. /\ maker'[t].pc # "none" => maker[t].pc # "none"
      /\ \A s \in Seats : s # t => maker'[s] = maker[s] /\ conv'[s] = conv[s]
  BY DEF MakerStart, MakerWait, SeatBase, MemoryTyped, MakerSet, HostTyped
<1>2. conv'[t] # conv[t] => Making(t) /\ ~LiveSeat(t) /\ ~(Relaunch /\ Target = t)
  <2>1. conv'[t] # conv[t] => Making(t)
    BY DEF MakerStart, MakerWait, Making
  <2> QED
    BY <2>1, SeatNotMaking
<1>3. ThreadOf(t)
  BY DEF Threads
<1>4. ThreadLocal(t) /\ RowsFine
  BY <1>0, <1>1 DEF ThreadLocal, RowsFine
<1>5. (LiveSeat(t)' <=> LiveSeat(t)) /\ (IsStopped(t)' <=> IsStopped(t)) /\ Target' = Target
      /\ (Relaunch' <=> Relaunch) /\ ActiveOf(t)' = ActiveOf(t) /\ (HasLaunch(t)' <=> HasLaunch(t))
  BY <1>0 DEF LiveSeat, IsStopped, Target, Relaunch, ActiveOf, HasLaunch
<1>6. Bound(t)' /\ Resumed(t)' /\ IdleBound(t)'
  BY <1>0, <1>2, <1>3, <1>5 DEF ThreadOf, Bound, Resumed, IdleBound
<1>7. Ended(t)' /\ Rotating(t)' /\ ClearKnown(t)'
  BY <1>0, <1>2, <1>3, <1>5 DEF ThreadOf, Ended, Rotating, ClearKnown, Relaunch
<1>8. MakerBound(t)'
  <2>1. maker'[t].pc = "commit" /\ prov[t] = "codex" => maker'[t].th \in {0, conv'[t]}
    <3>1. CASE MakerStart(t)
      BY <3>1 DEF MakerStart, SeatBase, MemoryTyped, MakerSet
    <3>2. CASE MakerWait(t)
      <4> SUFFICES ASSUME prov[t] = "codex", maker'[t].pc = "commit"
                   PROVE  maker'[t].th \in {0, conv'[t]}
        OBVIOUS
      <4>1. conv' = conv /\ \E th \in {0, conv[t]} :
              maker' = [maker EXCEPT ![t].pc = "commit", ![t].th = th]
        BY <3>2 DEF MakerWait
      <4> QED
        BY <4>1 DEF SeatBase, MemoryTyped, MakerSet
    <3> QED
      BY <3>1, <3>2
  <2>2. prov[t] = "codex" /\ maker'[t].pc # "none" => clearer[t].pc = "none"
    BY <1>1, <1>3 DEF ThreadOf, MakerBound
  <2> QED
    BY <1>0, <2>1, <2>2 DEF MakerBound
<1>9. ThreadOf(t)'
  BY <1>6, <1>7, <1>8 DEF ThreadOf
<1> QED
  BY <1>0, <1>4, <1>9, SeatThreadsFrom

LEMMA SeatThreadMakerEnds ==
  ASSUME SeatBase, BaseKept, SeatAuth, Threads, NEW t \in Seats, MakerFailed(t) \/ MakerCommit(t)
  PROVE  Threads'
<1> DEFINE l == maker[t].l
<1>0. /\ GuardFree /\ held' = held /\ held' = NoOp /\ serving' = serving /\ prov' = prov /\ conv' = conv
      /\ maker' = [maker EXCEPT ![t] = Asleep] /\ maker[t].pc \in {"failed", "commit"}
  BY DEF MakerFailed, MakerCommit, GuardFree
<1>1. l \in DOMAIN launch /\ launch[l].seat = t /\ ~Relaunch /\ HasLaunch(t)
  BY <1>0 DEF SeatBase, MakerRight, Relaunch, NoOp, HasLaunch
<1>2. maker'[t].pc = "none" /\ \A s \in Seats : s # t => maker'[s] = maker[s]
  BY <1>0 DEF SeatBase, MemoryTyped, Asleep
<1>3. ASSUME NEW b \in BOOLEAN, MarkFailed(l, b), clearer' = clearer
      PROVE  Threads'
  BY <1>0, <1>1, <1>2, <1>3, SeatThreadFails
<1>4. CASE MakerFailed(t)
  <2>1. PICK b \in BOOLEAN : b = ~seat[t].retired
    <3>1. (~seat[t].retired) \in BOOLEAN
      BY DEF SeatBase, TablesTyped, SeatSet
    <3> QED
      BY <3>1
  <2>2. MarkFailed(l, b) /\ clearer' = clearer
    BY <1>4, <2>1 DEF MakerFailed
  <2> QED
    BY <1>3, <2>2
<1>5. CASE MakerCommit(t) /\ seat[t].retired
  <2>1. MarkFailed(l, FALSE) /\ clearer' = clearer
    BY <1>5 DEF MakerCommit
  <2> QED
    BY <1>3, <2>1
<1>6. CASE MakerCommit(t) /\ ~seat[t].retired
  <2>1. /\ seat' = [seat EXCEPT ![t].status = "running", ![t].thread = maker[t].th]
        /\ MarkApplied(l) /\ maker[t].pc = "commit"
        /\ \/ clearer' = clearer
           \/ clearer' = [clearer EXCEPT ![t] = [Asleep EXCEPT !.pc = "rebind"]]
    BY <1>6 DEF MakerCommit
  <2>2. /\ \A s \in Seats : s # t => seat'[s] = seat[s] /\ clearer'[s] = clearer[s]
        /\ seat'[t].status = "running" /\ seat'[t].thread = maker[t].th
        /\ seat'[t].retired = seat[t].retired
        /\ clearer'[t] = clearer[t] \/ clearer'[t].pc = "rebind"
    BY <2>1 DEF SeatBase, TablesTyped, SeatSet, MemoryTyped, Asleep
  <2>3. RotsShrink /\ DOMAIN launch' = DOMAIN launch
    BY <1>1, <2>1, SeatRotsApplied
  <2>4. ThreadOf(t)
    BY DEF Threads
  <2>5. RowsFine
    BY <2>3 DEF RowsFine, RotsShrink
  <2>6. Bound(t)' /\ MakerBound(t)'
    BY <1>0, <1>2, <2>1, <2>2, <2>4 DEF ThreadOf, Bound, MakerBound
  <2>7. IdleBound(t)' /\ Ended(t)'
    BY <1>6, <2>2 DEF IdleBound, Ended, IsStopped
  <2>8. ClearKnown(t)'
    <3>1. HasLaunch(t)'
      BY <1>1 DEF HasLaunch, BaseKept, TablesMove, LaunchKept
    <3> QED
      BY <2>2, <2>4, <3>1 DEF ThreadOf, ClearKnown
  <2> QED
    BY <1>0, <1>2, <2>2, <2>3, <2>5, <2>6, <2>7, <2>8, SeatThreadFree DEF RotsShrink
<1> QED
  BY <1>4, <1>5, <1>6

LEMMA SeatThreadRestore ==
  ASSUME SeatBase, BaseKept, Threads, NEW s \in Seats, RestoreBegin(s)
  PROVE  Threads'
<1>0. /\ GuardFree /\ UNCHANGED <<prov, rot, conv, maker, clearer, serving>>
      /\ seat[s].there /\ IsStopped(s) /\ held' = Op("restore", Len(launch) + 1, "kill")
  BY DEF RestoreBegin
<1>1. PICK th \in Resumable(s) :
       /\ launch' = Append(launch, LaunchRecord("restore", s, th, 0, FALSE))
       /\ seat' = [seat EXCEPT ![s].thread = th,
                              ![s].cred = IF prov[s] = "codex-fork" THEN @ ELSE creds + 1]
  BY DEF RestoreBegin
<1> DEFINE y == LaunchRecord("restore", s, th, 0, FALSE)
           n == Len(launch) + 1
<1>2. th \in Nat /\ th # 0 /\ creds + 1 \in Nat
  <2>1. Resumable(s) \subseteq Nat \ {0}
    BY DEF Resumable, SeatBase, TablesTyped, SeatSet, HostTyped
  <2> QED
    BY <2>1 DEF SeatBase, HostTyped
<1>3. /\ seat'[s].status = seat[s].status /\ seat'[s].retired = seat[s].retired
      /\ seat'[s].there = seat[s].there
      /\ \A t \in Seats : t # s => seat'[t] = seat[t]
  BY <1>1 DEF SeatBase, TablesTyped, SeatSet
<1>4. y \in LaunchSet /\ y.seat = s /\ y.thread = th /\ launch' = Append(launch, y)
  BY <1>1, <1>2 DEF LaunchRecord, LaunchSet
<1> HIDE DEF y
<1>5. /\ launch'[n] = y /\ n \in DOMAIN launch'
      /\ \A i \in DOMAIN launch' : i \in DOMAIN launch \/ i = n
  BY <1>4, SeatAppends DEF SeatBase, TablesTyped
<1>6. held'.op = "restore" /\ held'.l = n /\ held'.pc = "kill"
  BY <1>0 DEF Op
<1> HIDE DEF n
<1>7. held = NoOp /\ ~Relaunch /\ held.op \notin {"rotate", "recover"}
  BY <1>0 DEF GuardFree, Relaunch, NoOp
<1>8. Target' = s
  BY <1>4, <1>5, <1>6 DEF Target
<1>9. ThreadLocal(s) /\ RowsFine
  BY <1>0, <1>2, <1>3, <1>4, <1>5, <1>7, <1>8 DEF ThreadLocal, RowsFine
<1>10. ThreadOf(s)
  BY DEF Threads
<1>11. ~LiveSeat(s)' /\ ActiveOf(s)' = ActiveOf(s)
  BY <1>0, <1>3 DEF LiveSeat, IsStopped, ActiveOf
<1>12. prov[s] = "codex-fork" => ActiveOf(s) = {}
  BY <1>0, <1>7, SeatEndedFree
<1>13. Bound(s)' /\ MakerBound(s)' /\ IdleBound(s)' /\ Ended(s)'
  BY <1>0, <1>10, <1>11, <1>12 DEF ThreadOf, Bound, MakerBound, IdleBound, Ended
<1>14. Resumed(s)' /\ Rotating(s)'
  BY <1>6 DEF Resumed, Rotating
<1>15. ClearKnown(s)'
  <2>1. HasLaunch(s)'
    BY <1>4, <1>5 DEF HasLaunch
  <2> QED
    BY <1>0, <1>10, <2>1 DEF ThreadOf, ClearKnown
<1>16. ThreadOf(s)'
  BY <1>13, <1>14, <1>15 DEF ThreadOf
<1> QED
  BY <1>0, <1>9, <1>16, SeatThreadsFrom

LEMMA SeatThreadRetire ==
  ASSUME SeatBase, BaseKept, Threads,
         (\E s \in Seats : RetireBegin(s)) \/ RetireKill \/ RetireCommit
  PROVE  Threads'
<1>1. ASSUME NEW t \in Seats, UNCHANGED <<prov, seat, launch, rot, conv, maker, clearer, serving>>,
             ~Relaunch, ~Relaunch'
      PROVE  Threads'
  <2>1. ThreadLocal(t) /\ RowsFine
    BY <1>1 DEF ThreadLocal, RowsFine
  <2>2. ThreadOf(t)
    BY DEF Threads
  <2>3. (LiveSeat(t)' <=> LiveSeat(t)) /\ (IsStopped(t)' <=> IsStopped(t))
        /\ ActiveOf(t)' = ActiveOf(t) /\ (HasLaunch(t)' <=> HasLaunch(t))
    BY <1>1 DEF LiveSeat, IsStopped, ActiveOf, HasLaunch
  <2>4. Bound(t)' /\ MakerBound(t)' /\ IdleBound(t)' /\ ClearKnown(t)'
    BY <1>1, <2>2, <2>3 DEF ThreadOf, Bound, MakerBound, IdleBound, ClearKnown
  <2>5. Resumed(t)' /\ Rotating(t)' /\ Ended(t)'
    BY <1>1, <2>2, <2>3 DEF ThreadOf, Resumed, Rotating, Ended, Relaunch
  <2>6. ThreadOf(t)'
    BY <2>4, <2>5 DEF ThreadOf
  <2> QED
    BY <1>1, <2>1, <2>6, SeatThreadsFrom
<1>2. ASSUME NEW t \in Seats, RetireBegin(t)
      PROVE  Threads'
  <2>1. ~Relaunch /\ ~Relaunch'
    BY <1>2 DEF RetireBegin, GuardFree, Relaunch, NoOp
  <2> QED
    BY <1>1, <1>2, <2>1 DEF RetireBegin
<1>3. ASSUME RetireKill
      PROVE  Threads'
  <2>1. PICK t \in Seats : Retiring(t)
    BY <1>3 DEF RetireKill, SeatBase, HeldRight, Relaunch, NoOp
  <2>2. ~Relaunch /\ ~Relaunch'
    BY <1>3 DEF RetireKill, Step, Done, SeatBase, MemoryTyped, HeldSet, Relaunch, NoOp
  <2> QED
    BY <1>1, <1>3, <2>2 DEF RetireKill
<1>4. ASSUME RetireCommit
      PROVE  Threads'
  <2>1. PICK t \in Seats : Retiring(t)
    BY <1>4 DEF RetireCommit, SeatBase, HeldRight, Relaunch, NoOp
  <2>2. /\ held.l = t /\ ~Relaunch /\ held' = NoOp /\ rot' = FinalRot(t) /\ launch' = FinalLaunch(t)
        /\ seat' = [seat EXCEPT ![t].status = "stopped", ![t].retired = TRUE]
        /\ UNCHANGED <<prov, serving, conv, clearer, maker>>
    BY <1>4, <2>1 DEF Retiring, Relaunch, RetireCommit, Done
  <2>3. /\ \A s \in Seats : s # t => seat'[s] = seat[s]
        /\ seat'[t].retired
    BY <2>2 DEF SeatBase, TablesTyped, SeatSet
  <2>4. ~LiveSeat(t)' /\ DOMAIN launch' = DOMAIN launch
    BY <2>2, <2>3, SeatFinalLocal DEF LiveSeat, IsStopped, CredsKept
  <2> QED
    BY <2>2, <2>3, <2>4, SeatThreadEnds
<1> QED
  BY <1>2, <1>3, <1>4

\* A seat that is marked as stopped, or was, with its rotations ended
LEMMA SeatThreadStops ==
  ASSUME SeatBase, BaseKept, Threads, NEW t \in Seats, held = NoOp, held' = held,
         UNCHANGED <<prov, serving, conv, clearer, maker>>,
         rot' = FinalRot(t), launch' = FinalLaunch(t),
         seat' = seat \/ seat' = [seat EXCEPT ![t].status = "stopped"]
  PROVE  Threads'
<1>1. /\ \A s \in Seats : s # t => seat'[s] = seat[s]
      /\ seat'[t] = seat[t] \/ seat'[t].status = "stopped"
  BY SeatStopWritten
<1>2. DOMAIN launch' = DOMAIN launch /\ ~Relaunch /\ (seat'[t] = seat[t] \/ ~LiveSeat(t)')
  BY <1>1, SeatFinalLocal DEF CredsKept, Relaunch, NoOp, LiveSeat, IsStopped
<1> QED
  BY <1>1, <1>2, SeatThreadEnds

LEMMA SeatThreadRequest ==
  ASSUME SeatBase, BaseKept, SeatAuth, Threads, NEW s \in Seats, RequestRotation(s)
  PROVE  Threads'
<1>0. /\ GuardFree /\ UNCHANGED <<prov, conv, held, maker, clearer, serving>> /\ held = NoOp
      /\ seat[s].there
  BY DEF RequestRotation, GuardFree
<1>1. CASE /\ rot' = FinalRot(s) /\ launch' = FinalLaunch(s)
           /\ seat' = seat \/ seat' = [seat EXCEPT ![s].status = "stopped"]
  BY <1>0, <1>1, SeatThreadStops
<1>2. CASE /\ ~IsStopped(s) /\ seat[s].thread # 0
           /\ rot' = Append(rot, [seat |-> s, status |-> "waiting_idle", launch |-> 0,
                                  thread |-> seat[s].thread])
           /\ seat' = [seat EXCEPT ![s].proof = FALSE] /\ launch' = launch
  <2> DEFINE z == [seat |-> s, status |-> "waiting_idle", launch |-> 0, thread |-> seat[s].thread]
             n == Len(rot) + 1
  <2>1. z \in RotSet /\ z.seat = s /\ z.thread # 0
    BY <1>2 DEF RotSet, SeatBase, TablesTyped, SeatSet
  <2>2. rot' = Append(rot, z)
    BY <1>2
  <2> HIDE DEF z
  <2>3. /\ rot'[n] = z /\ \A r \in DOMAIN rot' : r \in DOMAIN rot \/ r = n
        /\ \A r \in DOMAIN rot : rot'[r] = rot[r]
    BY <2>1, <2>2, SeatAppends DEF SeatBase, TablesTyped
  <2> HIDE DEF n
  <2>4. /\ \A t \in Seats : t # s => seat'[t] = seat[t]
        /\ seat'[s].thread = seat[s].thread /\ seat'[s].status = seat[s].status
        /\ seat'[s].retired = seat[s].retired /\ seat'[s].there = seat[s].there /\ ~seat'[s].proof
    BY <1>2 DEF SeatBase, TablesTyped, SeatSet
  <2>5. RowsFine
    BY <1>2, <2>1, <2>3 DEF RowsFine
  <2>6. ThreadOf(s) /\ HasLaunch(s)
    BY <1>0 DEF Threads, SeatAuth, AuthOf
  <2>7. (LiveSeat(s)' <=> LiveSeat(s)) /\ ~IsStopped(s)' /\ HasLaunch(s)'
    BY <1>2, <2>4, <2>6 DEF LiveSeat, IsStopped, HasLaunch
  <2>8. Bound(s)' /\ MakerBound(s)' /\ IdleBound(s)' /\ Ended(s)' /\ ClearKnown(s)'
    BY <1>0, <2>4, <2>6, <2>7 DEF ThreadOf, Bound, MakerBound, IdleBound, Ended, ClearKnown
  <2>9. \A r \in DOMAIN rot' : rot'[r].seat # s =>
          r \in DOMAIN rot /\ (rot'[r].status \in ActiveRotation => rot[r].status \in ActiveRotation)
    BY <2>1, <2>3
  <2> QED
    BY <1>0, <2>4, <2>5, <2>8, <2>9, SeatThreadFree
<1> QED
  BY <1>1, <1>2 DEF RequestRotation, MarkMissing

LEMMA SeatThreadFinal ==
  ASSUME SeatBase, BaseKept, Threads, NEW s \in Seats,
         WorkerFinal(s) \/ ForkExits(s) \/ SendMissing(s)
  PROVE  Threads'
<1>1. /\ held = NoOp /\ held' = held /\ UNCHANGED <<prov, serving, conv, clearer, maker>>
      /\ rot' = FinalRot(s) /\ launch' = FinalLaunch(s)
      /\ seat' = seat \/ seat' = [seat EXCEPT ![s].status = "stopped"]
  BY DEF WorkerFinal, ForkExits, SendMissing, MarkMissing, GuardFree
<1> QED
  BY <1>1, SeatThreadStops

LEMMA SeatThreadFence ==
  ASSUME SeatBase, BaseKept, SeatAuth, Threads, NEW s \in Seats, WorkerFence(s)
  PROVE  Threads'
<1>1. /\ GuardFree /\ held = NoOp /\ worker[s].pc = "fence" /\ clearer[s].pc \in {"none", "rebind"}
      /\ UNCHANGED <<prov, conv, clearer, maker, serving>>
  BY SeatFenceCases DEF GuardFree
<1>2. worker[s].l \in DOMAIN rot /\ rot[worker[s].l].seat = s /\ ThreadOf(s)
  BY <1>1 DEF SeatBase, WorkerRight, Threads
<1>3. CASE RotationBegins(s, worker[s].l)
  <2> DEFINE n == Len(launch) + 1
             r == worker[s].l
             y == LaunchRecord("recredential", s, rot[worker[s].l].thread, worker[s].l, FALSE)
  <2>1. /\ n \in DOMAIN launch' /\ launch'[n] = y /\ y.seat = s /\ y.thread = rot[r].thread
        /\ \A i \in DOMAIN launch' : i \in DOMAIN launch \/ i = n
        /\ held'.op = "rotate" /\ held'.l = n /\ held'.pc = "kill"
        /\ seat'[s].status = "stopped"
        /\ \A t \in Seats : t # s => seat'[t] = seat[t]
    BY <1>1, <1>3, SeatFenceFacts
  <2> HIDE DEF n, y
  <2>2. Target' = s /\ ~Relaunch /\ launch'[held'.l].thread = rot[r].thread /\ rot[r].thread # 0
    BY <1>1, <1>2, <2>1 DEF Target, Relaunch, NoOp, Threads, RowThreads
  <2>3. /\ rot[r].status = "waiting_idle" /\ LiveSeat(s) /\ seat[s].thread = rot[r].thread /\ IdleProof(s)
        /\ rot' = [rot EXCEPT ![r].status = "relaunching", ![r].launch = Len(launch) + 1]
    BY <1>3 DEF RotationBegins
  <2>4. DOMAIN rot' = DOMAIN rot /\ \A r2 \in DOMAIN rot : r2 # r => rot'[r2] = rot[r2]
    BY <2>3
  <2>5. \A r2 \in DOMAIN rot' : rot'[r2].seat # s =>
          r2 \in DOMAIN rot /\ (rot'[r2].status \in ActiveRotation => rot[r2].status \in ActiveRotation)
    <3>1. rot'[r].seat = s
      BY <1>2 DEF BaseKept, TablesMove, RotKept
    <3> QED
      BY <2>4, <3>1
  <2>6. ThreadLocal(s) /\ RowsFine
    BY <1>1, <2>1, <2>2, <2>4, <2>5 DEF ThreadLocal, RowsFine
  <2>7. ~LiveSeat(s)'
    BY <2>1 DEF LiveSeat, IsStopped
  <2>8. prov[s] # "claude" => rot[r].thread = conv[s]
    <3>1. CASE prov[s] = "codex"
      BY <1>1, <1>2, <2>2, <2>3, <3>1 DEF ThreadOf, Bound, Typing
    <3>2. CASE prov[s] = "codex-fork"
      <4>1. seat[s].status = "idle" /\ seat[s].proof
        BY <2>3, <3>2 DEF IdleProof
      <4>2. r \in ActiveOf(s)
        BY <1>2, <2>3 DEF ActiveOf, ActiveRotation
      <4> QED
        BY <1>1, <1>2, <2>3, <3>2, <4>1, <4>2 DEF ThreadOf, IdleBound, Typing
    <3>3. prov[s] \in {"claude", "codex", "codex-fork"}
      BY SeatAssumption DEF SeatBase, HostTyped
    <3> QED
      BY <3>1, <3>2, <3>3
  <2>9. Bound(s)' /\ MakerBound(s)' /\ IdleBound(s)'
    BY <1>1, <1>2, <2>7 DEF ThreadOf, Bound, MakerBound, IdleBound
  <2>10. Resumed(s)' /\ Rotating(s)' /\ Ended(s)'
    BY <1>1, <2>1, <2>2, <2>8 DEF Resumed, Rotating, Ended
  <2>11. ClearKnown(s)'
    <3>1. HasLaunch(s)'
      BY <2>1 DEF HasLaunch
    <3> QED
      BY <1>1, <1>2, <3>1 DEF ThreadOf, ClearKnown
  <2>12. ThreadOf(s)'
    BY <2>9, <2>10, <2>11 DEF ThreadOf
  <2> QED
    BY <1>1, <2>6, <2>12, SeatThreadsFrom
<1>4. CASE held' = held /\ UNCHANGED <<seat, launch, rot>>
  BY <1>1, <1>4, SeatThreadSame
<1>5. CASE /\ held' = held /\ rot' = FinalRot(s) /\ launch' = FinalLaunch(s)
           /\ seat' = seat \/ seat' = [seat EXCEPT ![s].status = "stopped"]
  BY <1>1, <1>5, SeatThreadStops
<1>6. CASE /\ held' = held /\ rot' = [rot EXCEPT ![worker[s].l].status = "failed"]
           /\ UNCHANGED <<seat, launch>>
  <2>1. RotsShrink
    <3>1. PICK r \in DOMAIN rot : r = worker[s].l
      BY <1>2
    <3>2. DOMAIN rot' = DOMAIN rot /\ \A r2 \in DOMAIN rot : r2 # r => rot'[r2] = rot[r2]
      BY <1>6, <3>1
    <3>3. rot'[r].status = "failed"
      <4>1. rot[r] \in RotSet
        BY SeatRowTypes DEF SeatBase
      <4> QED
        BY <1>6, <3>1, <4>1 DEF RotSet
    <3> QED
      BY <3>2, <3>3 DEF RotsShrink, ActiveRotation
  <2>2. RowsFine
    BY <1>6, <2>1 DEF RowsFine, RotsShrink
  <2>3. ActiveOf(s)' # {} => ActiveOf(s) # {}
    BY <2>1 DEF RotsShrink, ActiveOf, BaseKept, TablesMove, RotKept
  <2>4. (LiveSeat(s)' <=> LiveSeat(s)) /\ (IsStopped(s)' <=> IsStopped(s)) /\ HasLaunch(s) = HasLaunch(s)'
    BY <1>6 DEF LiveSeat, IsStopped, HasLaunch
  <2>5. Bound(s)' /\ MakerBound(s)' /\ IdleBound(s)'
    BY <1>1, <1>2, <1>6, <2>3, <2>4 DEF ThreadOf, Bound, MakerBound, IdleBound
  <2>6. Ended(s)'
    BY <1>1, <1>2, <1>6, <2>3, <2>4 DEF ThreadOf, Ended, NoOp
  <2>7. ClearKnown(s)'
    BY <1>1, <1>2, <1>6, <2>4 DEF ThreadOf, ClearKnown
  <2> QED
    BY <1>1, <1>6, <2>1, <2>2, <2>5, <2>6, <2>7, SeatThreadFree DEF RotsShrink
<1> QED
  BY <1>3, <1>4, <1>5, <1>6, SeatFenceCases DEF MarkMissing

LEMMA SeatThreadWorkerRecover ==
  ASSUME SeatBase, BaseKept, SeatAuth, Threads, NEW s \in Seats, WorkerRecover(s)
  PROVE  Threads'
<1> DEFINE l == worker[s].l
<1>0. /\ GuardFree /\ held = NoOp /\ ~Relaunch
      /\ l \in DOMAIN launch /\ launch[l].kind = "recredential" /\ launch[l].seat = s
      /\ UNCHANGED <<prov, conv, maker, clearer, serving>>
  BY DEF WorkerRecover, SeatBase, WorkerRight, GuardFree, Relaunch, NoOp
<1>1. CASE launch[l].status # "launching"
  BY <1>0, <1>1, SeatThreadSame DEF WorkerRecover
<1>2. CASE Recover(l)
  <2>1. ~ForkRestore(l)
    BY <1>0 DEF ForkRestore
  <2>2. CASE MarkFailed(l, MayHaveSpoken(l) /\ launch[l].kind = "create") /\ held' = held
    <3>1. PICK b \in BOOLEAN : b = (MayHaveSpoken(l) /\ launch[l].kind = "create")
      OBVIOUS
    <3>2. MarkFailed(l, b)
      BY <2>2, <3>1
    <3> HIDE DEF l
    <3> QED
      BY <1>0, <2>2, <3>2, SeatThreadFails
  <2>3. CASE Reissue(l) /\ held' = Op("recover", l, "kill") /\ rot' = rot
    <3>1. DOMAIN launch' = DOMAIN launch /\ launch'[l].seat = s
      BY <1>0, <2>3 DEF Reissue, BaseKept, TablesMove, LaunchKept
    <3>2. /\ \A t \in Seats : t # s => seat'[t] = seat[t]
          /\ seat'[s].status = "stopped"
      BY <1>0, <2>3 DEF Reissue, SeatBase, TablesTyped, SeatSet
    <3>3. held'.op = "recover" /\ held'.l = l /\ held'.pc = "kill"
      BY <2>3 DEF Op
    <3>4. Target' = s
      BY <3>1, <3>3 DEF Target
    <3>5. ThreadLocal(s) /\ RowsFine
      BY <1>0, <2>3, <3>1, <3>2, <3>4 DEF ThreadLocal, RowsFine
    <3>6. ThreadOf(s) /\ ~LiveSeat(s)' /\ HasLaunch(s)'
      BY <1>0, <3>1, <3>2 DEF Threads, LiveSeat, IsStopped, HasLaunch
    <3>7. Bound(s)' /\ MakerBound(s)' /\ IdleBound(s)' /\ ClearKnown(s)'
      BY <1>0, <3>6 DEF ThreadOf, Bound, MakerBound, IdleBound, ClearKnown
    <3>8. Resumed(s)' /\ Rotating(s)' /\ Ended(s)'
      BY <3>3, <3>4 DEF Resumed, Rotating, Ended
    <3>9. ThreadOf(s)'
      BY <3>7, <3>8 DEF ThreadOf
    <3> QED
      BY <1>0, <3>5, <3>9, SeatThreadsFrom
  <2> QED
    BY <1>2, <2>1, <2>2, <2>3 DEF Recover
<1> QED
  BY <1>1, <1>2 DEF WorkerRecover

LEMMA SeatThreadClear ==
  ASSUME SeatBase, BaseKept, SeatAuth, Threads, Calm', NEW s \in Seats,
         ClearBegin(s) \/ ClearCommit(s) \/ BindCodex(s)
  PROVE  Threads'
<1>0. /\ GuardFree /\ held' = held /\ held = NoOp
      /\ UNCHANGED <<prov, launch, rot, conv, maker, serving>>
  BY DEF ClearBegin, ClearCommit, BindCodex, GuardFree
<1>1. ~Fault /\ ThreadOf(s)
  BY SeatCalmStep DEF Threads
<1>2. /\ \A t \in Seats : t # s => seat'[t] = seat[t] /\ clearer'[t] = clearer[t]
      /\ seat'[s].status = seat[s].status /\ seat'[s].retired = seat[s].retired
      /\ seat'[s].there = seat[s].there
      /\ clearer'[s].pc \in {"none", "type"}
  <2>1. CASE ClearBegin(s)
    BY <2>1 DEF ClearBegin, SeatBase, TablesTyped, MemoryTyped
  <2>2. CASE ClearCommit(s)
    BY <1>1, <2>2 DEF ClearCommit, SeatBase, TablesTyped, SeatSet, MemoryTyped, Asleep
  <2>3. CASE BindCodex(s)
    BY <1>1, <2>3 DEF BindCodex, SeatBase, TablesTyped, SeatSet, MemoryTyped, Asleep
  <2> QED
    BY <2>1, <2>2, <2>3
<1>3. LiveSeat(s)' =>
        \/ seat'[s].thread = conv[s]
        \/ seat' = seat /\ (clearer[s].pc \in Typing \/ prov[s] = "claude")
  <2>1. CASE ClearBegin(s)
    BY <2>1 DEF ClearBegin, Asleep, Typing
  <2>2. CASE ClearCommit(s)
    <3>1. CASE IsStopped(s)
      BY <1>2, <3>1 DEF LiveSeat, IsStopped
    <3>2. CASE ~IsStopped(s)
      BY <1>1, <2>2, <3>2 DEF ClearCommit, SeatBase, TablesTyped, SeatSet
    <3> QED
      BY <3>1, <3>2
  <2>3. CASE BindCodex(s)
    <3>1. clearer[s].pc \in Typing
      BY <1>1, <2>3 DEF BindCodex, Typing, ThreadOf, ClearKnown
    <3> QED
      BY <1>1, <2>3, <3>1 DEF BindCodex, SeatBase, TablesTyped, SeatSet
  <2> QED
    BY <2>1, <2>2, <2>3
<1>4. (LiveSeat(s)' <=> LiveSeat(s)) /\ (IsStopped(s)' <=> IsStopped(s)) /\ ActiveOf(s)' = ActiveOf(s)
      /\ (HasLaunch(s)' <=> HasLaunch(s))
  BY <1>0, <1>2 DEF LiveSeat, IsStopped, ActiveOf, HasLaunch
<1>5. Bound(s)' /\ IdleBound(s)'
  BY <1>0, <1>1, <1>3, <1>4 DEF ThreadOf, Bound, IdleBound
<1>6. Ended(s)'
  BY <1>0, <1>1, <1>2, <1>4 DEF ThreadOf, Ended, NoOp
<1>7. MakerBound(s)'
  <2> SUFFICES ASSUME prov[s] = "codex", maker[s].pc # "none" PROVE clearer'[s].pc = "none"
    BY <1>0, <1>1 DEF ThreadOf, MakerBound
  <2>1. clearer[s].pc = "none" /\ Making(s)
    BY <1>1 DEF ThreadOf, MakerBound, Making
  <2>2. ~LiveSeat(s)
    BY <2>1, SeatNotMaking
  <2> QED
    BY <2>1, <2>2 DEF ClearBegin, ClearCommit, BindCodex
<1>8. ClearKnown(s)'
  <2>1. ~HasLaunch(s) => clearer[s].pc = "none" /\ ~LiveSeat(s)
    BY <1>1 DEF ThreadOf, ClearKnown, SeatAuth, AuthOf, LiveSeat
  <2>2. ~HasLaunch(s) => clearer'[s].pc = "none"
    BY <2>1 DEF ClearBegin, ClearCommit, BindCodex
  <2> QED
    BY <1>0, <1>1, <1>2, <1>4, <2>2 DEF ThreadOf, ClearKnown
<1>9. RowsFine
  BY <1>0 DEF RowsFine
<1> QED
  BY <1>0, <1>2, <1>5, <1>6, <1>7, <1>8, <1>9, SeatThreadFree

LEMMA SeatThreadType ==
  ASSUME SeatBase, BaseKept, SeatAuth, Threads, NEW s \in Seats, ClearType(s)
  PROVE  Threads'
<1>0. /\ UNCHANGED <<prov, seat, launch, rot, held, maker, serving>> /\ clearer[s].pc = "type"
      /\ ~(held.op = "rotate" /\ Target = s)
  BY DEF ClearType
<1>1. /\ \A t \in Seats : t # s => clearer'[t] = clearer[t] /\ conv'[t] = conv[t]
      /\ \/ clearer'[s].pc = "commit"
         \/ clearer'[s].pc = "none" /\ conv' = conv
  BY DEF ClearType, SeatBase, MemoryTyped, ClearerSet, HostTyped, Asleep
<1>2. ThreadLocal(s) /\ RowsFine /\ ThreadOf(s)
  BY <1>0, <1>1 DEF ThreadLocal, RowsFine, Threads
<1>3. (LiveSeat(s)' <=> LiveSeat(s)) /\ (IsStopped(s)' <=> IsStopped(s)) /\ Target' = Target
      /\ (Relaunch' <=> Relaunch) /\ ActiveOf(s)' = ActiveOf(s) /\ (HasLaunch(s)' <=> HasLaunch(s))
  BY <1>0 DEF LiveSeat, IsStopped, Target, Relaunch, ActiveOf, HasLaunch
<1>4. Bound(s)' /\ Resumed(s)' /\ IdleBound(s)'
  BY <1>0, <1>1, <1>2, <1>3 DEF ThreadOf, Bound, Resumed, IdleBound, Typing
<1>5. MakerBound(s)' /\ ClearKnown(s)'
  BY <1>0, <1>1, <1>2, <1>3 DEF ThreadOf, MakerBound, ClearKnown
<1>6. Ended(s)' /\ Rotating(s)'
  BY <1>0, <1>2, <1>3 DEF ThreadOf, Ended, Rotating
<1>7. ThreadOf(s)'
  BY <1>4, <1>5, <1>6 DEF ThreadOf
<1> QED
  BY <1>0, <1>2, <1>7, SeatThreadsFrom

LEMMA SeatThreadTurns ==
  ASSUME SeatBase, BaseKept, Threads, NEW s \in Seats, TurnEnds(s) \/ TurnStarts(s) \/ Revive(s)
  PROVE  Threads'
<1>0. /\ GuardFree /\ held' = held /\ held = NoOp
      /\ UNCHANGED <<prov, launch, rot, conv, maker, clearer, serving>>
  BY DEF TurnEnds, TurnStarts, Revive, GuardFree
<1>1. /\ \A t \in Seats : t # s => seat'[t] = seat[t]
      /\ seat'[s].retired = seat[s].retired /\ seat'[s].there = seat[s].there
      /\ seat'[s].status # "stopped"
      /\ \/ seat'[s].status = "idle" /\ prov[s] # "codex" /\ seat'[s].thread = conv[s]
         \/ seat'[s].status = "running" /\ seat'[s].thread = seat[s].thread /\ LiveSeat(s)
         \/ prov[s] = "codex-fork" /\ seat[s].there /\ IsStopped(s)
  <2>1. CASE TurnEnds(s)
    BY <2>1 DEF TurnEnds, SeatBase, TablesTyped, SeatSet
  <2>2. CASE TurnStarts(s)
    BY <2>2 DEF TurnStarts, SeatBase, TablesTyped, SeatSet
  <2>3. CASE Revive(s)
    BY <2>3 DEF Revive, SeatBase, TablesTyped, SeatSet, IsStopped
  <2> QED
    BY <2>1, <2>2, <2>3
<1>2. ThreadOf(s) /\ RowsFine
  BY <1>0 DEF Threads, RowsFine
<1>3. prov[s] = "codex-fork" /\ seat[s].there /\ IsStopped(s) => ActiveOf(s)' = {}
  <2>1. held.op \notin {"rotate", "recover"} /\ ActiveOf(s)' = ActiveOf(s)
    BY <1>0 DEF NoOp, ActiveOf
  <2> QED
    BY <2>1, SeatEndedFree
<1>4. Bound(s)'
  BY <1>0, <1>1, <1>2 DEF ThreadOf, Bound
<1>5. MakerBound(s)' /\ ClearKnown(s)'
  BY <1>0, <1>2 DEF ThreadOf, MakerBound, ClearKnown, HasLaunch
<1>6. IdleBound(s)'
  BY <1>0, <1>1, <1>3 DEF IdleBound
<1>7. Ended(s)'
  <2>1. seat[s].there /\ IsStopped(s)' => IsStopped(s)
    BY <1>1 DEF IsStopped
  <2> QED
    BY <1>0, <1>1, <1>3, <2>1 DEF Ended
<1> QED
  BY <1>0, <1>1, <1>2, <1>4, <1>5, <1>6, <1>7, SeatThreadFree

\* A relaunch that goes on
LEMMA SeatThreadHeld ==
  ASSUME SeatBase, BaseKept, SeatAuth, Threads, NEW t \in Seats, Relaunch, Target = t,
         UNCHANGED <<prov, launch, rot, clearer, maker, serving>>,
         held'.op = held.op, held'.l = held.l,
         \A s \in Seats : s # t => seat'[s] = seat[s] /\ conv'[s] = conv[s],
         seat'[t].status = seat[t].status, seat'[t].retired = seat[t].retired,
         seat'[t].there = seat[t].there,
         Resumed(t)', Rotating(t)'
  PROVE  Threads'
<1>1. Target' = t /\ Relaunch' /\ ~LiveSeat(t)' /\ (IsStopped(t)' <=> IsStopped(t))
      /\ ActiveOf(t)' = ActiveOf(t) /\ (HasLaunch(t)' <=> HasLaunch(t))
  <2>1. IsStopped(t)
    BY SeatTarget DEF RelaunchRight
  <2> QED
    BY <2>1 DEF Target, Relaunch, LiveSeat, IsStopped, ActiveOf, HasLaunch
<1>2. ThreadOf(t) /\ ~Making(t)
  BY SeatNotMaking DEF Threads
<1>3. ThreadLocal(t) /\ RowsFine
  BY <1>1 DEF ThreadLocal, RowsFine
<1>4. Bound(t)' /\ IdleBound(t)'
  BY <1>1 DEF Bound, IdleBound
<1>5. MakerBound(t)'
  BY <1>2 DEF MakerBound, Making
<1>6. Ended(t)' /\ ClearKnown(t)'
  BY <1>1, <1>2 DEF ThreadOf, Ended, ClearKnown
<1>7. ThreadOf(t)'
  BY <1>4, <1>5, <1>6 DEF ThreadOf
<1> QED
  BY <1>3, <1>7, SeatThreadsFrom

LEMMA SeatHolderCalm ==
  ASSUME SeatBase, SeatAuth, Threads, Relaunch
  PROVE  \E t \in Seats :
           /\ t = Target /\ held.l \in DOMAIN launch /\ launch[held.l].seat = t
           /\ RelaunchRight /\ ThreadOf(t) /\ ~Removes /\ launch[held.l].thread # 0
           /\ Removes \in BOOLEAN
<1>1. /\ Target \in Seats /\ held.l \in DOMAIN launch /\ RelaunchRight
      /\ launch[held.l].seat = Target
  BY SeatTarget DEF Target
<1>2. launch[held.l].kind # "create"
  BY <1>1 DEF RelaunchRight, Relaunch, Threads
<1> QED
  BY <1>1, <1>2 DEF Threads, RowThreads, Removes

\* The relaunch ends with its launch failed.
LEMMA SeatThreadHeldFails ==
  ASSUME SeatBase, BaseKept, SeatAuth, Threads, Relaunch, held' = NoOp,
         UNCHANGED <<prov, serving, conv, clearer, maker>>,
         \E b \in BOOLEAN : MarkFailed(held.l, b)
  PROVE  Threads'
<1>1. held.l \in DOMAIN launch /\ Target = launch[held.l].seat
  BY SeatTarget DEF Target
<1>2. PICK b \in BOOLEAN : MarkFailed(held.l, b)
  OBVIOUS
<1>3. PICK l \in DOMAIN launch : l = held.l
  BY <1>1
<1> QED
  BY <1>1, <1>2, <1>3, SeatThreadFails

LEMMA SeatThreadSteps ==
  ASSUME SeatBase, BaseKept, SeatAuth, Threads, Calm', KillOld \/ StartNew \/ Verify \/ CheckRotated
  PROVE  Threads'
<1>0. Relaunch /\ UNCHANGED <<prov, clearer, maker, serving>>
  BY SeatPcRelaunches DEF KillOld, StartNew, Verify, CheckRotated, Relaunch
<1>1. PICK t \in Seats :
           /\ t = Target /\ held.l \in DOMAIN launch /\ launch[held.l].seat = t
           /\ RelaunchRight /\ ThreadOf(t) /\ ~Removes /\ Removes \in BOOLEAN
  BY <1>0, SeatHolderCalm
<1>2. ~Fault
  BY SeatCalmStep
<1>3. ASSUME NEW pc, Step(pc)
      PROVE  held'.op = held.op /\ held'.l = held.l /\ held'.pc = pc
  BY <1>3 DEF Step, SeatBase, MemoryTyped, HeldSet
<1>4. CASE KillOld
  <2>1. /\ held.pc = "kill" /\ Step("start") /\ UNCHANGED <<launch, rot, conv>>
        /\ seat' = seat \/ seat' = [seat EXCEPT ![t].cred = Cred]
    BY <1>1, <1>2, <1>4 DEF KillOld
  <2>2. /\ \A s \in Seats : s # t => seat'[s] = seat[s]
        /\ seat'[t].status = seat[t].status /\ seat'[t].retired = seat[t].retired
        /\ seat'[t].there = seat[t].there
    BY <2>1 DEF SeatBase, TablesTyped, SeatSet
  <2>3. held'.op = held.op /\ held'.l = held.l /\ held'.pc = "start"
    BY <1>3, <2>1
  <2>4. Resumed(t)' /\ Rotating(t)'
    BY <1>0, <1>1, <2>1, <2>3 DEF ThreadOf, Resumed, Rotating, Target
  <2> QED
    BY <1>0, <1>1, <2>1, <2>2, <2>3, <2>4, SeatThreadHeld
<1>5. CASE StartNew
  <2>1. CASE MarkFailed(held.l, Removes) /\ Done /\ conv' = conv
    BY <1>0, <1>1, <2>1, SeatThreadHeldFails DEF Done
  <2>2. CASE /\ conv' = [conv EXCEPT ![t] = IF Removes THEN threads + 1 ELSE launch[held.l].thread]
             /\ Step(NextPc) /\ UNCHANGED <<seat, launch, rot>>
    <3>1. conv' = [conv EXCEPT ![t] = launch[held.l].thread]
      BY <1>1, <2>2
    <3>2. conv'[t] = launch[held.l].thread /\ \A s \in Seats : s # t => conv'[s] = conv[s]
      BY <3>1 DEF SeatBase, HostTyped
    <3>3. held'.op = held.op /\ held'.l = held.l /\ held'.pc = NextPc
      BY <1>3, <2>2
    <3>4. NextPc \notin {"kill", "start"}
      BY DEF NextPc
    <3>5. Resumed(t)' /\ Rotating(t)'
      BY <2>2, <3>2, <3>3, <3>4 DEF Resumed, Rotating
    <3> QED
      BY <1>0, <1>1, <2>2, <3>2, <3>3, <3>5, SeatThreadHeld
  <2> QED
    BY <1>1, <1>5, <2>1, <2>2 DEF StartNew
<1>6. CASE Verify \/ CheckRotated
  <2>1. CASE (\E b \in BOOLEAN : MarkFailed(held.l, b)) /\ Done
    BY <1>0, <1>6, <2>1, SeatThreadHeldFails DEF Verify, CheckRotated, Done
  <2>2. CASE Step("commit") /\ UNCHANGED <<seat, launch, rot>>
    <3>1. held.pc \in {"verify", "wait", "check"} /\ conv' = conv
      BY <1>6 DEF Verify, CheckRotated
    <3>2. held'.op = held.op /\ held'.l = held.l /\ held'.pc = "commit"
      BY <1>3, <2>2
    <3>3. Resumed(t)' /\ Rotating(t)'
      BY <1>0, <1>1, <2>2, <3>1, <3>2 DEF ThreadOf, Resumed, Rotating, Target
    <3> QED
      BY <1>0, <1>1, <2>2, <3>1, <3>2, <3>3, SeatThreadHeld
  <2>3. MarkFailed(held.l, Removes) \/ MarkFailed(held.l, FALSE) => \E b \in BOOLEAN : MarkFailed(held.l, b)
    BY <1>1
  <2>4. CASE Verify
    BY <1>2, <2>1, <2>2, <2>3, <2>4 DEF Verify
  <2>5. CASE CheckRotated
    BY <1>2, <2>1, <2>2, <2>3, <2>5 DEF CheckRotated
  <2> QED
    BY <1>6, <2>4, <2>5
<1> QED
  BY <1>4, <1>5, <1>6

LEMMA SeatThreadCommit ==
  ASSUME SeatBase, BaseKept, SeatAuth, Threads, CommitLaunch
  PROVE  Threads'
<1>0. /\ Relaunch /\ held.pc = "commit" /\ UNCHANGED <<prov, conv, maker, serving>>
      /\ held' = NoOp /\ MarkApplied(held.l)
  BY DEF CommitLaunch, Relaunch, Done
<1>1. PICK t \in Seats :
           /\ t = Target /\ held.l \in DOMAIN launch /\ launch[held.l].seat = t
           /\ RelaunchRight /\ ThreadOf(t) /\ ~Removes /\ launch[held.l].thread # 0
  BY <1>0, SeatHolderCalm
<1>2. Recovered = {launch[held.l].thread}
  BY <1>1 DEF Recovered
<1>3. /\ clearer' = clearer
      /\ seat' = [seat EXCEPT ![t].status = "running",
                              ![t].retired = @ /\ launch[held.l].kind # "restore",
                              ![t].thread = launch[held.l].thread]
  BY <1>1, <1>2 DEF CommitLaunch
<1>4. /\ \A s \in Seats : s # t => seat'[s] = seat[s]
      /\ seat'[t].status = "running" /\ seat'[t].thread = launch[held.l].thread
      /\ ~seat'[t].retired
  <2>1. ~(seat[t].retired /\ launch[held.l].kind # "restore")
    BY <1>1 DEF RelaunchRight
  <2> QED
    BY <1>3, <2>1 DEF SeatBase, TablesTyped, SeatSet
<1>5. RotsShrink /\ DOMAIN launch' = DOMAIN launch
  BY <1>0, <1>1, SeatRotsApplied
<1>6. ~Relaunch' /\ ~Making(t)
  BY <1>0, <1>1, SeatNotMaking DEF Relaunch, NoOp
<1>7. ThreadLocal(t) /\ RowsFine
  BY <1>0, <1>1, <1>3, <1>4, <1>5, <1>6 DEF ThreadLocal, RowsFine, RotsShrink
<1>8. Bound(t)'
  BY <1>0, <1>1, <1>3, <1>4 DEF ThreadOf, Resumed, Bound
<1>9. MakerBound(t)' /\ Resumed(t)' /\ Rotating(t)'
  BY <1>0, <1>6 DEF MakerBound, Making, Resumed, Rotating, Relaunch
<1>10. IdleBound(t)' /\ Ended(t)'
  BY <1>4 DEF IdleBound, Ended, IsStopped
<1>11. ClearKnown(t)'
  <2>1. HasLaunch(t)'
    BY <1>1 DEF HasLaunch, BaseKept, TablesMove, LaunchKept
  <2> QED
    BY <1>1, <1>3, <2>1 DEF ThreadOf, ClearKnown
<1>12. ThreadOf(t)'
  BY <1>8, <1>9, <1>10, <1>11 DEF ThreadOf
<1> QED
  BY <1>0, <1>7, <1>12, SeatThreadsFrom

LEMMA SeatCalmBefore ==
  ASSUME SeatBase, [SeatNext]_seatVars, Calm'
  PROVE  Calm /\ ~Crash
<1>0. seatCrashes \in Nat /\ ~Fault /\ seatCrashes' = 0 /\ seatFaults' = 0
  BY SeatCalmStep DEF SeatBase, HostTyped, Calm
<1>1. ~Crash
  BY <1>0 DEF Crash
<1> DEFINE Kept == seatCrashes' = seatCrashes /\ (seatFaults' = seatFaults \/ Fault)
<1>2. Kept => Calm
  BY <1>0 DEF Calm
<1>3. ASSUME UNCHANGED seatVars
      PROVE  Kept
  BY <1>3 DEF seatVars
<1>4. ASSUME HeldStep
      PROVE  Kept
  <2>1. CASE RetireKill
    BY <2>1 DEF RetireKill, NoFault
  <2>2. CASE RetireCommit
    BY <2>2 DEF RetireCommit, NoFault
  <2>3. CASE KillOld
    BY <2>3 DEF KillOld, NoFault
  <2>4. CASE StartNew
    BY <2>4 DEF StartNew, NoFault
  <2>5. CASE Verify
    BY <2>5 DEF Verify, NoFault
  <2>6. CASE CheckRotated
    BY <2>6 DEF CheckRotated, NoFault
  <2>7. CASE CommitLaunch
    BY <2>7 DEF CommitLaunch, NoFault
  <2> QED
    BY <1>4, <2>1, <2>2, <2>3, <2>4, <2>5, <2>6, <2>7 DEF HeldStep
<1>5. ASSUME NEW l, Recover(l)
      PROVE  seatFaults' = seatFaults \/ Fault
  BY <1>5 DEF Recover, NoFault
<1>6. ASSUME StartupRecover \/ StartupDone
      PROVE  Kept
  BY <1>5, <1>6 DEF StartupRecover, StartupDone
<1>7. ASSUME NEW s \in Seats, CreateBegin(s) \/ MakerStep(s) \/ RestoreBegin(s) \/ RetireBegin(s)
      PROVE  Kept
  <2>1. CASE CreateBegin(s)
    BY <2>1 DEF CreateBegin, NoFault
  <2>2. CASE MakerStart(s)
    BY <2>2 DEF MakerStart, NoFault
  <2>3. CASE MakerWait(s)
    BY <2>3 DEF MakerWait, NoFault
  <2>4. CASE MakerFailed(s)
    BY <2>4 DEF MakerFailed, NoFault
  <2>5. CASE MakerCommit(s)
    BY <2>5 DEF MakerCommit, NoFault
  <2>6. CASE RestoreBegin(s)
    BY <2>6 DEF RestoreBegin, NoFault
  <2>7. CASE RetireBegin(s)
    BY <2>7 DEF RetireBegin, NoFault
  <2> HIDE DEF Kept
  <2> QED
    BY <1>7, <2>1, <2>2, <2>3, <2>4, <2>5, <2>6, <2>7 DEF MakerStep
<1>8. ASSUME NEW s \in Seats, RequestRotation(s) \/ WorkerStep(s)
      PROVE  Kept
  <2>1. CASE RequestRotation(s)
    BY <2>1 DEF RequestRotation, NoFault
  <2>2. CASE StartWorker(s)
    BY <2>2 DEF StartWorker, NoFault
  <2>3. CASE WorkerLook(s)
    BY <2>3 DEF WorkerLook, NoFault
  <2>4. CASE WorkerFinal(s)
    BY <2>4 DEF WorkerFinal, NoFault
  <2>5. CASE WorkerFence(s)
    BY <2>5 DEF WorkerFence, NoFault
  <2>6. CASE WorkerRecover(s)
    BY <1>5, <2>6 DEF WorkerRecover, NoFault
  <2>7. CASE WorkerExit(s)
    BY <2>7 DEF WorkerExit, NoFault
  <2> HIDE DEF Kept
  <2> QED
    BY <1>8, <2>1, <2>2, <2>3, <2>4, <2>5, <2>6, <2>7 DEF WorkerStep
<1>9. ASSUME NEW s \in Seats, ClearBegin(s) \/ ClearType(s) \/ ClearCommit(s) \/ BindCodex(s)
             \/ TurnEnds(s) \/ TurnStarts(s) \/ ForkExits(s) \/ SendMissing(s) \/ Revive(s)
             \/ PaneDies(s)
      PROVE  Kept
  <2>1. CASE ClearBegin(s)
    BY <2>1 DEF ClearBegin, NoFault
  <2>2. CASE ClearType(s)
    BY <2>2 DEF ClearType, NoFault
  <2>3. CASE ClearCommit(s)
    BY <2>3 DEF ClearCommit, NoFault
  <2>4. CASE BindCodex(s)
    BY <2>4 DEF BindCodex, NoFault
  <2>5. CASE TurnEnds(s)
    BY <2>5 DEF TurnEnds, NoFault
  <2>6. CASE TurnStarts(s)
    BY <2>6 DEF TurnStarts, NoFault
  <2>7. CASE ForkExits(s)
    BY <2>7 DEF ForkExits, NoFault
  <2>8. CASE SendMissing(s)
    BY <2>8 DEF SendMissing, NoFault
  <2>9. CASE Revive(s)
    BY <2>9 DEF Revive, NoFault
  <2>10. CASE PaneDies(s)
    BY <2>10 DEF PaneDies, NoFault
  <2> HIDE DEF Kept
  <2> QED
    BY <1>9, <2>1, <2>2, <2>3, <2>4, <2>5, <2>6, <2>7, <2>8, <2>9, <2>10
<1> HIDE DEF Kept
<1> QED
  BY <1>1, <1>2, <1>3, <1>4, <1>6, <1>7, <1>8, <1>9 DEF SeatNext

LEMMA SeatThreadStep ==
  ASSUME SeatBase, SeatAuth, Calm => Threads, [SeatNext]_seatVars
  PROVE  (Calm => Threads)'
<1> SUFFICES ASSUME Calm' PROVE Threads'
  OBVIOUS
<1>0. BaseKept /\ Threads /\ serving /\ ~Crash /\ ~Fault
  BY SeatBaseStep, SeatCalmBefore, SeatCalmStep DEF Threads
<1>1. CASE HeldStep
  BY <1>0, <1>1, SeatThreadRetire, SeatThreadSteps, SeatThreadCommit DEF HeldStep
<1>2. CASE StartupRecover \/ StartupDone
  BY <1>0, <1>2 DEF StartupRecover, StartupDone
<1>3. ASSUME NEW s \in Seats, StartWorker(s) \/ WorkerLook(s) \/ WorkerExit(s)
      PROVE  Threads'
  BY <1>0, <1>3, SeatThreadSame DEF StartWorker, WorkerLook, WorkerExit
<1>4. ASSUME NEW s \in Seats, CreateBegin(s) \/ MakerStep(s) \/ RestoreBegin(s) \/ RetireBegin(s)
                              \/ RequestRotation(s) \/ WorkerStep(s)
      PROVE  Threads'
  BY <1>0, <1>3, <1>4, SeatThreadCreate, SeatThreadMakers, SeatThreadMakerEnds, SeatThreadRestore,
     SeatThreadRetire, SeatThreadRequest, SeatThreadFinal, SeatThreadFence, SeatThreadWorkerRecover
     DEF MakerStep, WorkerStep
<1>5. ASSUME NEW s \in Seats,
             ClearBegin(s) \/ ClearType(s) \/ ClearCommit(s) \/ BindCodex(s)
             \/ TurnEnds(s) \/ TurnStarts(s) \/ ForkExits(s) \/ SendMissing(s) \/ Revive(s)
      PROVE  Threads'
  BY <1>0, <1>5, SeatThreadClear, SeatThreadType, SeatThreadTurns, SeatThreadFinal
<1>6. ASSUME NEW s \in Seats, PaneDies(s)
      PROVE  FALSE
  BY <1>0, <1>6 DEF PaneDies
<1>7. CASE UNCHANGED seatVars
  BY <1>0, <1>7, SeatThreadSame DEF seatVars
<1> QED
  BY <1>0, <1>1, <1>2, <1>4, <1>5, <1>6, <1>7 DEF SeatNext

LEMMA SeatInitThreads ==
  ASSUME SeatInit
  PROVE  Threads
<1>1. /\ launch = <<>> /\ rot = <<>> /\ held = NoOp /\ serving = TRUE
      /\ maker = [s \in Seats |-> Asleep] /\ clearer = [s \in Seats |-> Asleep]
      /\ seat = [s \in Seats |-> NoSeat]
  BY DEF SeatInit
<1>2. RowThreads /\ ~Relaunch
  BY <1>1 DEF RowThreads, Relaunch, NoOp
<1>3. ASSUME NEW s \in Seats PROVE ThreadOf(s)
  <2>1. ~seat[s].there /\ maker[s].pc = "none" /\ clearer[s].pc = "none"
    BY <1>1 DEF NoSeat, Asleep
  <2>2. Bound(s) /\ MakerBound(s) /\ IdleBound(s) /\ Ended(s)
    BY <2>1 DEF Bound, MakerBound, IdleBound, Ended, LiveSeat
  <2>3. Resumed(s) /\ Rotating(s) /\ ClearKnown(s)
    BY <1>1, <1>2, <2>1 DEF Resumed, Rotating, ClearKnown, Relaunch
  <2> QED
    BY <2>2, <2>3 DEF ThreadOf
<1> QED
  BY <1>1, <1>2, <1>3 DEF Threads

\* SeatRelaunches for every set of seats and every bound, when no seat is restored while it is still
\* being created: a runtime comes up for a retired seat only as the seat's own restore, and as long as
\* nothing has failed or crashed a rotation takes the conversation of a Codex seat along.
THEOREM RelaunchesRight ==
  ASSUME ~Overlaps
  PROVE  SeatSpec => SeatRelaunches
<1> DEFINE Inv == SeatBase /\ SeatAuth /\ (Calm => Threads)
<1>1. SeatInit => Inv
  BY SeatInitBase, SeatInitAuth, SeatInitThreads
<1>2. Inv /\ [SeatNext]_seatVars => Inv'
  <2> SUFFICES ASSUME Inv, [SeatNext]_seatVars PROVE Inv'
    OBVIOUS
  <2>1. SeatBase' /\ SeatAuth'
    BY SeatBaseStep, SeatAuthStep DEF BaseKept
  <2>2. (Calm => Threads)'
    BY SeatThreadStep
  <2> QED
    BY <2>1, <2>2
<1>3. Inv /\ [SeatNext]_seatVars =>
        [\A s \in Seats :
           held.op = "rotate" /\ Target = s /\ held.pc = "start" /\ pane'[s] # pane[s] /\ pane'[s] # 0
           /\ prov[s] # "claude" /\ seatFaults = 0 /\ seatCrashes = 0 => conv'[s] = conv[s]]_seatVars
  <2> SUFFICES ASSUME SeatBase, SeatAuth, Threads, [SeatNext]_seatVars, NEW s \in Seats,
                      held.op = "rotate", Target = s, held.pc = "start", pane'[s] # pane[s],
                      pane'[s] # 0, prov[s] # "claude"
               PROVE  conv'[s] = conv[s]
    BY DEF Calm
  <2>1. Relaunch /\ ~Removes
    BY DEF Relaunch, Removes
  <2>2. ~MakerStart(s)
    BY <2>1, SeatNotMaking DEF MakerStart, Making
  <2>3. StartNew
    BY <2>2, SeatStarts
  <2>4. conv'[s] \in {conv[s], launch[held.l].thread}
    <3>1. conv' = conv \/ conv' = [conv EXCEPT ![s] = launch[held.l].thread]
      BY <2>1, <2>3 DEF StartNew
    <3> QED
      BY <3>1 DEF SeatBase, HostTyped
  <2> QED
    BY <2>4 DEF Threads, ThreadOf, Rotating
<1>4. SeatSpec => RelaunchKeepsThread
  <2> HIDE DEF Inv
  <2> QED
    BY <1>1, <1>2, <1>3, PTL DEF SeatSpec, RelaunchKeepsThread
<1> QED
  BY <1>4, RetiredSeatsStayDown DEF SeatRelaunches
==============================================================================
