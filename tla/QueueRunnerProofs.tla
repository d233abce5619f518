------------------------- MODULE QueueRunnerProofs -------------------------
(***************************************************************************)
(* Theorems about QueueRunner, for every set of jobs, every policy and     *)
(* every bound: its types, the reports of verdicts, the admission of jobs  *)
(* by the passes that request handlers, monitors, pollers, the timer and   *)
(* recovery run, and what becomes of the jobs: QueueRunner implements      *)
(* JobLedger, every running job is watched, and verdicts wait for process  *)
(* groups.                                                                 *)
(***************************************************************************)
EXTENDS QueueRunner, FiniteSetTheorems, TLAPS

\* The inductive invariant behind the reports.  A thread about to report a verdict
\* has committed it; one about to stamp a row has its message queued; the retry
\* round only holds finished jobs.
Reports ==
  /\ \A t \in Threads :
       /\ th[t].pc \in {"notify", "stamp"} => row[th[t].job].state = th[t].final
       /\ th[t].pc \in {"stamp", "restamp"} => msg[th[t].job] # NoMsg
       /\ th[t].pc \in {"renotify", "restamp"} => \A j \in th[t].todo : IsTerminal(j)
  /\ MessageMatchesRow
  /\ StampMeansQueued

Inv == TypeOK /\ Reports

-----------------------------------------------------------------------------
(* Types *)

SrvOK == th \in [Threads -> Thread] /\ locked \in SUBSET Threads /\ asleep \in BOOLEAN

LEMMA AtType ==
  ASSUME NEW pc \in PCs \ (JobPCs \cup VerdictPCs)
  PROVE  At(pc) \in Thread /\ At(pc).pc = pc
BY DEF At, Thread

LEMMA RankType ==
  ASSUME NEW S, IsFiniteSet(S), NEW rank
  PROVE  NextRank(rank, S) \in Nat
<1>1. IsFiniteSet({j \in S : rank[j] # 0})
  BY FS_Subset
<1> QED BY <1>1, FS_CardinalityType DEF NextRank

LEMMA ThreadNames ==
  /\ Timer \in Threads /\ Recovery \in Threads
  /\ \A j \in Jobs : /\ <<"create", j>> \in Threads /\ <<"cancel", j>> \in Threads
                     /\ <<"monitor", j>> \in Threads /\ <<"poller", j>> \in Threads
  /\ Monitors \subseteq Threads /\ Pollers \subseteq Threads
BY DEF Threads, Kinds, Timer, Recovery, Monitors, Pollers

LEMMA TypeInit == Init => TypeOK
<1> SUFFICES ASSUME Init PROVE TypeOK
  OBVIOUS
<1> USE QueueAssumption DEF Init
<1>1. row \in [Jobs -> Row]
  BY DEF NoRow, Row, States
<1>2. th \in [Threads -> Thread]
  <2>1. Off \in Thread /\ At("sleep") \in Thread
    BY AtType DEF Off, PCs, JobPCs, VerdictPCs
  <2> QED BY <2>1
<1>3. msg \in [Jobs -> Text \cup {NoMsg}] /\ log \in [Jobs -> 0 .. MaxLog]
  OBVIOUS
<1>4. proc \in [Jobs -> [Launches -> Process]] /\ launches \in [Jobs -> 0 .. MaxLaunches]
  BY DEF NoProcess, Process
<1>5. receipt \in [Jobs -> {"none", "ok", "bad"}] /\ locked \in SUBSET Threads
  OBVIOUS
<1>6. asleep \in BOOLEAN /\ cool \in BOOLEAN /\ policy \in Policies
  OBVIOUS
<1>7. faults \in 0 .. MaxFaults /\ crashes \in 0 .. MaxCrashes
  OBVIOUS
<1> QED BY <1>1, <1>2, <1>3, <1>4, <1>5, <1>6, <1>7, Zenon DEF TypeOK

\* A thread ends, goes on after a verdict, or finds that a verdict failed.
LEMMA EndType ==
  ASSUME TypeOK, NEW t \in Threads
  PROVE  /\ Abort(t) => SrvOK'
         /\ \A retry \in BOOLEAN : EndPass(t, retry) => SrvOK'
<1>1. Ended(t) \in Thread
  BY AtType DEF Ended, Off, PCs, JobPCs, VerdictPCs
<1>2. [th EXCEPT ![t] = Ended(t)] \in [Threads -> Thread]
  BY <1>1 DEF TypeOK
<1>3. locked \ {t} \in SUBSET Threads
  BY DEF TypeOK
<1> QED BY <1>2, <1>3 DEF Abort, EndPass, SrvOK, TypeOK

LEMMA ResumeType ==
  ASSUME TypeOK, NEW t \in Threads
  PROVE  /\ Resume(t) => SrvOK'
         /\ FinishFailed(t) => SrvOK'
<1>1. AfterFinish(t) \in Thread
  <2>1. th[t] \in Thread
    BY DEF TypeOK
  <2>2. [At("scan") EXCEPT !.retry = th[t].retry] \in Thread
    BY <2>1 DEF At, Thread, PCs, JobPCs, VerdictPCs
  <2>3. [At("each") EXCEPT !.todo = th[t].todo] \in Thread
    BY <2>1 DEF At, Thread, PCs, JobPCs, VerdictPCs
  <2>4. At("lock") \in Thread
    BY AtType DEF PCs, JobPCs, VerdictPCs
  <2> QED BY <2>2, <2>3, <2>4 DEF AfterFinish
<1>2. [th EXCEPT ![t] = AfterFinish(t)] \in [Threads -> Thread]
  BY <1>1 DEF TypeOK
<1>3. Resume(t) => SrvOK'
  BY <1>2 DEF Resume, SrvOK, TypeOK
<1> QED BY <1>3, EndType DEF FinishFailed

LEMMA OnlyServer ==
  ASSUME TypeOK, SrvOK', UNCHANGED <<dbVars, osVars, envVars, cool>>
  PROVE  TypeOK'
BY DEF TypeOK, SrvOK, dbVars, osVars, envVars

\* A step that only moves thread t to another record
LEMMA OnlyThread ==
  ASSUME TypeOK, NEW t \in Threads, NEW r \in Thread, th' = [th EXCEPT ![t] = r],
         UNCHANGED <<dbVars, osVars, locked, asleep, envVars, cool>>
  PROVE  TypeOK'
<1>1. SrvOK'
  BY DEF SrvOK, TypeOK
<1> QED BY <1>1, OnlyServer

LEMMA EnvironmentType == TypeOK /\ Environment => TypeOK'
<1> SUFFICES ASSUME TypeOK, Environment PROVE TypeOK'
  OBVIOUS
<1> USE QueueAssumption DEF dbVars, srvVars, envVars
<1>1. ASSUME NEW j \in Jobs, NEW k \in Launches, WrapperExits(j, k)
      PROVE  TypeOK'
  <2>1. PICK code \in ExitCodes, g \in Leftover(j) :
          /\ proc' = [proc EXCEPT ![j][k] = [wrapper |-> code, group |-> g]]
          /\ receipt' = [receipt EXCEPT ![j] = code]
    BY <1>1 DEF WrapperExits
  <2>2. [wrapper |-> code, group |-> g] \in Process
    BY <2>1 DEF Process, Leftover
  <2>3. proc' \in [Jobs -> [Launches -> Process]]
    BY <2>1, <2>2 DEF TypeOK
  <2>4. receipt' \in [Jobs -> {"none", "ok", "bad"}]
    BY <2>1 DEF TypeOK
  <2> QED BY <1>1, <2>3, <2>4 DEF WrapperExits, TypeOK
<1>2. ASSUME NEW j \in Jobs, NEW k \in Launches, WrapperDies(j, k)
      PROVE  TypeOK'
  <2>1. PICK g \in Leftover(j) : proc' = [proc EXCEPT ![j][k] = [wrapper |-> "killed", group |-> g]]
    BY <1>2 DEF WrapperDies
  <2>2. [wrapper |-> "killed", group |-> g] \in Process
    BY <2>1 DEF Process, Leftover
  <2>3. proc' \in [Jobs -> [Launches -> Process]]
    BY <2>1, <2>2 DEF TypeOK
  <2> QED BY <1>2, <2>3 DEF WrapperDies, TypeOK
<1>3. ASSUME NEW j \in Jobs, NEW k \in Launches, GroupDrains(j, k)
      PROVE  TypeOK'
  <2>0. proc[j][k] \in Process
    BY DEF TypeOK
  <2>1. [proc[j][k] EXCEPT !.group = FALSE] \in Process
    BY <2>0 DEF Process
  <2>2. proc' \in [Jobs -> [Launches -> Process]]
    BY <1>3, <2>1 DEF GroupDrains, TypeOK
  <2> QED BY <1>3, <2>2 DEF GroupDrains, TypeOK
<1>4. ASSUME NEW j \in Jobs, LogGrows(j)
      PROVE  TypeOK'
  <2>1. log' \in [Jobs -> 0 .. MaxLog]
    BY <1>4 DEF LogGrows, TypeOK
  <2> QED BY <1>4, <2>1 DEF LogGrows, TypeOK
<1>5. CASE CooldownElapses
  BY <1>5 DEF CooldownElapses, osVars, TypeOK
<1> QED BY <1>1, <1>2, <1>3, <1>4, <1>5 DEF Environment

LEMMA RequestsType == TypeOK /\ Requests => TypeOK'
<1> SUFFICES ASSUME TypeOK, NEW j \in Jobs, CreateJob(j) \/ CancelRead(j) PROVE TypeOK'
  BY DEF Requests
<1> USE QueueAssumption, ThreadNames
<1>1. CASE CreateJob(j)
  <2>1. [row[j] EXCEPT !.state = "pending", !.queued = NextRank(Queued, Jobs)] \in Row
    <3>1. row[j] \in Row /\ NextRank(Queued, Jobs) \in Nat
      BY RankType DEF TypeOK
    <3> QED BY <3>1 DEF Row, States
  <2>2. row' \in [Jobs -> Row]
    BY <1>1, <2>1 DEF CreateJob, TypeOK
  <2>3. SrvOK'
    BY <1>1, AtType DEF CreateJob, SrvOK, TypeOK, PCs, JobPCs, VerdictPCs
  <2> QED BY <1>1, <2>2, <2>3 DEF CreateJob, TypeOK, SrvOK, osVars, envVars
<1>2. CASE CancelRead(j)
  <2> DEFINE live == row[j].state = "running"
             r == [AtJob(IF live THEN "cmark" ELSE "commit", j)
                     EXCEPT !.final = "cancelled", !.seen = live]
  <2>1. r \in Thread
    BY DEF At, AtJob, Thread, PCs, JobPCs, VerdictPCs, Terminal
  <2> QED BY <1>2, <2>1, OnlyThread DEF CancelRead
<1> QED BY <1>1, <1>2

LEMMA FinishingType == ASSUME TypeOK, NEW t \in Threads, Finishing(t) PROVE TypeOK'
<1> DEFINE j == th[t].job
<1> USE QueueAssumption
<1>0. th[t] \in Thread
  BY DEF TypeOK
<1>1. ASSUME NEW pc \in {"cmark", "dmark"}, NEW hold \in {"cancelling", "displacing"},
             MarkHold(t, pc, hold)
      PROVE  TypeOK'
  <2>1. j \in Jobs /\ [th[t] EXCEPT !.pc = "kill"] \in Thread
    BY <1>0, <1>1 DEF MarkHold, Thread, JobPCs, VerdictPCs, PCs
  <2>2. SrvOK'
    BY <1>1, <2>1 DEF MarkHold, Goto, SrvOK, TypeOK
  <2>3. row[j] \in Row
    BY <2>1 DEF TypeOK
  <2>4. [row[j] EXCEPT !.hold = hold] \in Row
    BY <2>3 DEF Row
  <2>5. row' \in [Jobs -> Row]
    BY <1>1, <2>1, <2>4 DEF MarkHold, TypeOK
  <2> QED BY <1>1, <2>2, <2>5 DEF MarkHold, TypeOK, SrvOK, osVars, envVars
<1>2. CASE Terminate(t)
  <2>1. \A pc \in {"decide", "commit"} : [th[t] EXCEPT !.pc = pc] \in Thread
    BY <1>0, <1>2 DEF Terminate, Thread, JobPCs, VerdictPCs, PCs
  <2> QED BY <1>2, <2>1, OnlyThread DEF Terminate, Goto
<1>3. CASE Commit(t)
  <2>1. j \in Jobs /\ th[t].final \in Terminal /\ [th[t] EXCEPT !.pc = "notify"] \in Thread
    BY <1>0, <1>3 DEF Commit, Thread, JobPCs, VerdictPCs, PCs
  <2>2. SrvOK'
    <3>1. CASE IsTerminal(j)
      <4>1. Abort(t) \/ Resume(t)
        BY <1>3, <3>1 DEF Commit
      <4> QED BY <4>1, EndType, ResumeType
    <3>2. CASE ~IsTerminal(j)
      <4>1. /\ th' = [th EXCEPT ![t] = [th[t] EXCEPT !.pc = "notify"]]
            /\ UNCHANGED <<locked, asleep>>
        BY <1>3, <3>2 DEF Commit, Goto
      <4> QED BY <2>1, <4>1 DEF SrvOK, TypeOK
    <3> QED BY <3>1, <3>2
  <2>3. row[j] \in Row /\ NextRank(Finished, Jobs) \in Nat
    BY <2>1, RankType DEF TypeOK
  <2>4. [row[j] EXCEPT !.state = th[t].final, !.hold = "none",
                       !.finished = NextRank(Finished, Jobs)] \in Row
    BY <2>1, <2>3 DEF Row, States
  <2>5. row' \in [Jobs -> Row]
    <3>1. \/ row' = row
          \/ row' = [row EXCEPT ![j] = [row[j] EXCEPT !.state = th[t].final, !.hold = "none",
                                          !.finished = NextRank(Finished, Jobs)]]
      BY <1>3 DEF Commit
    <3> QED BY <2>1, <2>4, <3>1 DEF TypeOK
  <2>6. cool' \in BOOLEAN
    BY <1>3 DEF Commit, TypeOK
  <2> QED BY <1>3, <2>2, <2>5, <2>6 DEF Commit, TypeOK, SrvOK, osVars, envVars
<1>4. CASE Notify(t)
  <2> DEFINE text == TextOf(j, th[t].final, th[t].seen)
  <2>1. j \in Jobs /\ [th[t] EXCEPT !.pc = "stamp"] \in Thread
    BY <1>0, <1>4 DEF Notify, Thread, JobPCs, VerdictPCs, PCs
  <2>2. text \in Text
    BY <1>0, <1>4, <2>1 DEF Notify, TextOf, Text, TypeOK, Thread, VerdictPCs
  <2>3. msg' \in [Jobs -> Text \cup {NoMsg}]
    BY <1>4, <2>1, <2>2 DEF Notify, Enqueue, TypeOK
  <2>4. SrvOK'
    <3>1. CASE Enqueued(j, text)
      BY <1>4, <2>1, <3>1 DEF Notify, Goto, SrvOK, TypeOK
    <3>2. CASE ~Enqueued(j, text)
      BY <1>4, <3>2, ResumeType DEF Notify
    <3> QED BY <3>1, <3>2
  <2> QED BY <1>4, <2>3, <2>4 DEF Notify, TypeOK, SrvOK, osVars, envVars
<1>5. CASE Stamp(t)
  <2>1. j \in Jobs
    BY <1>0, <1>5 DEF Stamp, Thread, JobPCs, VerdictPCs
  <2>2. row[j] \in Row
    BY <2>1 DEF TypeOK
  <2>3. [row[j] EXCEPT !.notified = TRUE] \in Row
    BY <2>2 DEF Row
  <2>4. row' \in [Jobs -> Row]
    BY <1>5, <2>1, <2>3 DEF Stamp, TypeOK
  <2>5. SrvOK'
    BY <1>5, ResumeType DEF Stamp
  <2> QED BY <1>5, <2>4, <2>5 DEF Stamp, TypeOK, SrvOK, osVars, envVars
<1> QED BY <1>1, <1>2, <1>3, <1>4, <1>5 DEF Finishing, CancelMark, DisplaceMark

LEMMA ScanType == ASSUME TypeOK, NEW t \in Threads, Scan(t) PROVE TypeOK'
<1>0. th[t] \in Thread
  BY DEF TypeOK
<1>1. UNCHANGED <<dbVars, osVars, envVars, cool>>
  BY DEF Scan
<1> SUFFICES SrvOK'
  BY <1>1, OnlyServer
<1>2. /\ (th[t].retry \/ HeldForCooldown) \in BOOLEAN /\ th[t].retry \in BOOLEAN
      /\ (th[t].retry \/ SkipsCoolingPerf) \in BOOLEAN
  BY <1>0 DEF Thread
<1>3. CASE PassHolds(t)
  BY <1>2, <1>3, EndType DEF PassHolds
<1>4. CASE PassDisplaces(t)
  <2>1. PICK j \in Oldest(Running("background"), Started) :
          th' = [th EXCEPT ![t].pc = "dmark", ![t].job = j,
                   ![t].final = "displaced", ![t].seen = TRUE]
    BY <1>4 DEF PassDisplaces
  <2>2. [th[t] EXCEPT !.pc = "dmark", !.job = j, !.final = "displaced", !.seen = TRUE] \in Thread
    BY <1>0 DEF Thread, PCs, JobPCs, VerdictPCs, Terminal, Oldest, Running
  <2>3. th' = [th EXCEPT ![t] = [th[t] EXCEPT !.pc = "dmark", !.job = j,
                                              !.final = "displaced", !.seen = TRUE]]
    BY <2>1
  <2>4. th' \in [Threads -> Thread]
    BY <2>2, <2>3 DEF TypeOK
  <2> QED BY <1>4, <2>4 DEF PassDisplaces, SrvOK, TypeOK
<1>5. CASE PassAtCapacity(t)
  BY <1>2, <1>5, EndType DEF PassAtCapacity
<1>6. CASE PassFindsNone(t)
  BY <1>2, <1>6, EndType DEF PassFindsNone
<1>7. CASE PassChooses(t)
  <2> DEFINE retry == th[t].retry \/ SkipsCoolingPerf
  <2>0. PICK type \in Types : \E j \in Oldest(Pending(type), Queued) :
          th' = [th EXCEPT ![t].pc = "start", ![t].job = j, ![t].retry = retry]
    BY <1>7 DEF PassChooses
  <2>1. PICK j \in Oldest(Pending(type), Queued) :
          th' = [th EXCEPT ![t].pc = "start", ![t].job = j, ![t].retry = retry]
    BY <2>0
  <2>2. [th[t] EXCEPT !.pc = "start", !.job = j, !.retry = retry] \in Thread
    <3>1. retry \in BOOLEAN /\ j \in Jobs
      BY <1>2 DEF Oldest, Pending
    <3> HIDE DEF retry
    <3> QED BY <1>0, <3>1 DEF Thread, PCs, JobPCs, VerdictPCs
  <2>3. th' = [th EXCEPT ![t] = [th[t] EXCEPT !.pc = "start", !.job = j, !.retry = retry]]
    BY <2>1
  <2>4. th' \in [Threads -> Thread]
    BY <2>2, <2>3 DEF TypeOK
  <2> QED BY <1>7, <2>4 DEF PassChooses, SrvOK, TypeOK
<1> QED BY <1>3, <1>4, <1>5, <1>6, <1>7 DEF Scan

LEMMA AdmittingType == ASSUME TypeOK, NEW t \in Threads, Admitting(t) PROVE TypeOK'
<1> DEFINE j == th[t].job
           back == [At("scan") EXCEPT !.retry = th[t].retry]
<1> USE QueueAssumption
<1>0. th[t] \in Thread
  BY DEF TypeOK
<1>1. back \in Thread
  BY <1>0 DEF At, Thread, PCs, JobPCs, VerdictPCs
<1>2. CASE AdmitLock(t)
  <2>1. At("scan") \in Thread
    BY AtType DEF PCs, JobPCs, VerdictPCs
  <2>2. SrvOK'
    <3>1. CASE ServiceReserveHolds
      BY <1>2, <2>1, <3>1 DEF AdmitLock, SrvOK, TypeOK
    <3>2. CASE ~ServiceReserveHolds
      BY <1>2, <3>2, EndType DEF AdmitLock
    <3> QED BY <3>1, <3>2
  <2> QED BY <1>2, <2>2, OnlyServer DEF AdmitLock
<1>3. CASE Scan(t)
  BY <1>3, ScanType
<1>4. CASE StartStale(t)
  BY <1>1, <1>4, OnlyThread DEF StartStale
<1>5. CASE Start(t)
  <2> DEFINE k == launches[j] + 1
  <2>1. j \in Jobs /\ [th[t] EXCEPT !.pc = "mark"] \in Thread
    BY <1>0, <1>5 DEF Start, Thread, JobPCs, VerdictPCs, PCs
  <2>2. SrvOK'
    BY <1>5, <2>1 DEF Start, Goto, SrvOK, TypeOK
  <2>3. launches' \in [Jobs -> 0 .. MaxLaunches]
    BY <1>5, <2>1 DEF Start, Launches, TypeOK
  <2>4. [wrapper |-> "run", group |-> TRUE] \in Process
    BY DEF Process
  <2>5. proc' \in [Jobs -> [Launches -> Process]]
    BY <1>5, <2>1, <2>4 DEF Start, TypeOK
  <2> QED BY <1>5, <2>2, <2>3, <2>5 DEF Start, TypeOK, SrvOK, dbVars, envVars
<1>6. CASE Mark(t)
  <2> DEFINE rank == NextRank(Started, OfType(JobType[j]))
             started == [row[j] EXCEPT !.state = "running", !.hold = "none",
                           !.pg = launches[j], !.started = rank]
  <2>1. j \in Jobs
    BY <1>0, <1>6 DEF Mark, Thread, JobPCs, VerdictPCs
  <2>2. row[j] \in Row /\ launches[j] \in {0} \cup Launches
    BY <2>1 DEF TypeOK, Launches
  <2>3. IsFiniteSet(OfType(JobType[j]))
    BY FS_Subset DEF OfType
  <2>4. started \in Row
    BY <2>2, <2>3, RankType DEF Row, States
  <2>5. row' = row \/ row' = [row EXCEPT ![j] = started]
    BY <1>6 DEF Mark
  <2>6. row' \in [Jobs -> Row]
    BY <2>1, <2>4, <2>5 DEF TypeOK
  <2>7. AtJob("watch", j) \in Thread
    BY <2>1 DEF At, AtJob, Thread, PCs, JobPCs, VerdictPCs
  <2>8. th' \in [Threads -> Thread]
    BY <1>1, <1>6, <2>1, <2>7, ThreadNames DEF Mark, TypeOK
  <2> QED BY <1>6, <2>6, <2>8 DEF Mark, TypeOK, osVars, envVars
<1> QED BY <1>2, <1>3, <1>4, <1>5, <1>6 DEF Admitting

LEMMA WatchingType == ASSUME TypeOK, NEW t \in Threads, Watching(t) PROVE TypeOK'
<1>0. th[t] \in Thread
  BY DEF TypeOK
<1>1. Off \in Thread
  BY AtType DEF Off, PCs, JobPCs, VerdictPCs
<1>2. CASE MonitorCancelled(t)
  BY <1>1, <1>2, OnlyThread DEF MonitorCancelled
<1>3. CASE MonitorExit(t)
  <2> DEFINE verdict == IF Child(t).wrapper = "ok" THEN "succeeded" ELSE "failed"
  <2>1. [th[t] EXCEPT !.pc = "decide", !.final = verdict] \in Thread
    BY <1>0, <1>3 DEF MonitorExit, Thread, PCs, JobPCs, VerdictPCs, Terminal
  <2>2. th' = [th EXCEPT ![t] = [th[t] EXCEPT !.pc = "decide", !.final = verdict]]
    BY <1>3 DEF MonitorExit
  <2> QED BY <1>3, <2>1, <2>2, OnlyThread DEF MonitorExit
<1>4. CASE MonitorTimeout(t)
  <2>1. [th[t] EXCEPT !.pc = "kill", !.final = "timed_out"] \in Thread
    BY <1>0, <1>4 DEF MonitorTimeout, Thread, PCs, JobPCs, VerdictPCs, Terminal
  <2>2. th' = [th EXCEPT ![t] = [th[t] EXCEPT !.pc = "kill", !.final = "timed_out"]]
    BY <1>4 DEF MonitorTimeout
  <2> QED BY <1>4, <2>1, <2>2, OnlyThread DEF MonitorTimeout
<1>5. CASE MonitorDecide(t)
  <2> DEFINE r == row[th[t].job]
             verdict == ForcedState(r.hold, th[t].final)
             decided == [th[t] EXCEPT !.pc = "commit", !.seen = TRUE, !.final = verdict]
  <2>1. th[t].job \in Jobs /\ th[t].final \in Terminal
    BY <1>0, <1>5 DEF MonitorDecide, Thread, JobPCs, VerdictPCs
  <2>2. verdict \in Terminal
    BY <2>1 DEF ForcedState, Terminal
  <2>3. decided \in Thread
    <3> HIDE DEF verdict
    <3> QED BY <1>0, <2>1, <2>2 DEF Thread, PCs, JobPCs, VerdictPCs
  <2>4. th' = [th EXCEPT ![t] = decided] \/ th' = [th EXCEPT ![t] = Off]
    <3>1. CASE r.state = "running"
      BY <1>5, <3>1 DEF MonitorDecide
    <3>2. CASE r.state # "running"
      BY <1>5, <3>2 DEF MonitorDecide
    <3> QED BY <3>1, <3>2
  <2> QED BY <1>1, <1>5, <2>3, <2>4, OnlyThread DEF MonitorDecide
<1> QED BY <1>2, <1>3, <1>4, <1>5 DEF Watching

LEMMA PollingType == ASSUME TypeOK, NEW t \in Threads, Polling(t) PROVE TypeOK'
<1> DEFINE j == th[t].job
<1>0. th[t] \in Thread
  BY DEF TypeOK
<1>1. LookDone(t) \in Thread
  <2>1. [At("each") EXCEPT !.todo = th[t].todo] \in Thread
    BY <1>0 DEF At, Thread, PCs, JobPCs, VerdictPCs
  <2> QED BY <2>1, AtType DEF LookDone, Off, PCs, JobPCs, VerdictPCs
<1>2. ASSUME th[t].pc \in {"look", "probe"}, NEW pc \in {"kill", "commit"}, NEW final \in Terminal
      PROVE  [th[t] EXCEPT !.pc = pc, !.final = final, !.seen = TRUE] \in Thread
  BY <1>0, <1>2 DEF Thread, PCs, JobPCs, VerdictPCs
<1>3. CASE Look(t)
  <2> DEFINE forced == ForcedState(row[j].hold, "none")
  <2>1. [th[t] EXCEPT !.pc = "probe"] \in Thread /\ j \in Jobs
    BY <1>0, <1>3 DEF Look, Thread, PCs, JobPCs, VerdictPCs
  <2>2. Receipt(j) \in Terminal
    BY DEF Receipt, Terminal
  <2>3. row[j].hold # "none" => forced \in Terminal
    BY <2>1 DEF ForcedState, Terminal, TypeOK, Row
  <2>4. \E r \in Thread : th' = [th EXCEPT ![t] = r]
    <3>1. CASE row[j].state # "running"
      BY <1>1, <1>3, <3>1 DEF Look
    <3>2. CASE row[j].state = "running" /\ row[j].hold # "none"
      <4>1. th' = [th EXCEPT ![t] = [th[t] EXCEPT !.pc = "kill", !.final = forced, !.seen = TRUE]]
        BY <1>3, <3>2 DEF Look
      <4> HIDE DEF forced
      <4> QED BY <1>2, <1>3, <2>3, <3>2, <4>1 DEF Look
    <3>3. CASE row[j].state = "running" /\ row[j].hold = "none" /\ receipt[j] # "none"
      <4>1. th' = [th EXCEPT ![t] = [th[t] EXCEPT !.pc = "commit", !.final = Receipt(j),
                                                  !.seen = TRUE]]
        BY <1>3, <3>3 DEF Look
      <4> QED BY <1>2, <1>3, <2>2, <4>1 DEF Look
    <3>4. CASE row[j].state = "running" /\ row[j].hold = "none" /\ receipt[j] = "none"
      <4>1. th' = [th EXCEPT ![t] = [th[t] EXCEPT !.pc = "probe"]]
        BY <1>3, <3>4 DEF Look, Goto
      <4> QED BY <2>1, <4>1
    <3> QED BY <3>1, <3>2, <3>3, <3>4
  <2> QED BY <1>3, <2>4, OnlyThread DEF Look
<1>4. CASE ProbeTimedOut(t)
  <2>1. th' = [th EXCEPT ![t] = [th[t] EXCEPT !.pc = "kill", !.final = "timed_out", !.seen = TRUE]]
    BY <1>4 DEF ProbeTimedOut
  <2> QED BY <1>2, <1>4, <2>1, OnlyThread DEF ProbeTimedOut, Terminal
<1>5. CASE ProbeDead(t)
  <2>1. th' = [th EXCEPT ![t] = [th[t] EXCEPT !.pc = "commit", !.final = "failed", !.seen = TRUE]]
    BY <1>5 DEF ProbeDead
  <2> QED BY <1>2, <1>5, <2>1, OnlyThread DEF ProbeDead, Terminal
<1>6. CASE ProbeAlive(t)
  <2>1. [th[t] EXCEPT !.pc = "look"] \in Thread /\ j \in Jobs
    BY <1>0, <1>6 DEF ProbeAlive, Thread, PCs, JobPCs, VerdictPCs
  <2>2. AtJob("look", j) \in Thread
    BY <2>1 DEF At, AtJob, Thread, PCs, JobPCs, VerdictPCs
  <2>3. th' \in [Threads -> Thread]
    <3>1. CASE t = Recovery
      BY <1>1, <1>6, <2>1, <2>2, <3>1, ThreadNames DEF ProbeAlive, TypeOK
    <3>2. CASE t # Recovery
      BY <1>6, <2>1, <3>2 DEF ProbeAlive, TypeOK
    <3> QED BY <3>1, <3>2
  <2>4. SrvOK'
    BY <1>6, <2>3 DEF ProbeAlive, SrvOK, TypeOK
  <2> QED BY <1>6, <2>4, OnlyServer DEF ProbeAlive
<1> QED BY <1>3, <1>4, <1>5, <1>6 DEF Polling

LEMMA RecoveringType == ASSUME TypeOK, Reports, NEW t \in Threads, Recovering(t) PROVE TypeOK'
<1>0. th[t] \in Thread /\ th[t].todo \subseteq Jobs
  BY DEF TypeOK, Thread
<1>1. ASSUME NEW S \in SUBSET Jobs, NEW pc \in {"each", "renotify"}
      PROVE  [At(pc) EXCEPT !.todo = S] \in Thread
  BY DEF At, Thread, PCs, JobPCs, VerdictPCs
<1>2. ASSUME NEW S \in SUBSET Jobs, NEW j \in Jobs, NEW pc \in {"look", "restamp"}
      PROVE  [AtJob(pc, j) EXCEPT !.todo = S] \in Thread
  BY DEF At, AtJob, Thread, PCs, JobPCs, VerdictPCs
<1>3. At("lock") \in Thread /\ At("sleep") \in Thread
  BY AtType DEF PCs, JobPCs, VerdictPCs
<1>4. CASE RecoverSelect(t)
  BY <1>1, <1>4, OnlyThread DEF RecoverSelect, AllRunning
<1>5. CASE RecoverNext(t)
  BY <1>0, <1>2, <1>5, OnlyThread DEF RecoverNext, Oldest
<1>6. CASE RecoverDone(t)
  BY <1>3, <1>6, OnlyThread DEF RecoverDone
<1>7. CASE RetryTick(t)
  BY <1>1, <1>7, OnlyThread DEF RetryTick, Unnotified
<1>8. CASE RenotifyDone(t)
  BY <1>3, <1>8, OnlyThread DEF RenotifyDone
<1>9. CASE Renotify(t)
  <2>1. PICK j \in Oldest(th[t].todo, Finished) :
          LET rest == th[t].todo \ {j}
              text == TextOf(j, row[j].state, row[j].started # 0)
          IN  \/ th' = [th EXCEPT ![t].todo = rest] /\ UNCHANGED msg
              \/ /\ Enqueue(j, text)
                 /\ th' = [th EXCEPT ![t] = [AtJob("restamp", j) EXCEPT !.todo = rest]]
              \/ th' = [th EXCEPT ![t] = At("sleep")] /\ UNCHANGED msg
    BY <1>9 DEF Renotify
  <2> DEFINE rest == th[t].todo \ {j}
             text == TextOf(j, row[j].state, row[j].started # 0)
  <2>2. j \in Jobs /\ rest \in SUBSET Jobs
    BY <1>0 DEF Oldest
  <2>3. [th[t] EXCEPT !.todo = rest] \in Thread
    BY <1>0, <2>2 DEF Thread
  <2>4. th' \in [Threads -> Thread]
    <3> HIDE DEF rest
    <3>1. CASE th' = [th EXCEPT ![t].todo = rest]
      BY <2>3, <3>1 DEF TypeOK
    <3>2. CASE th' = [th EXCEPT ![t] = [AtJob("restamp", j) EXCEPT !.todo = rest]]
      BY <1>2, <2>2, <3>2 DEF TypeOK
    <3>3. CASE th' = [th EXCEPT ![t] = At("sleep")]
      BY <1>3, <3>3 DEF TypeOK
    <3> QED BY <2>1, <3>1, <3>2, <3>3 DEF rest
  <2>5. text \in Text
    <3>1. row[j].state \in Terminal /\ log[j] \in 0 .. MaxLog
      BY <1>9, <2>2 DEF Renotify, Reports, IsTerminal, Oldest, TypeOK
    <3> QED BY <3>1 DEF TextOf, Text
  <2>6. msg' \in [Jobs -> Text \cup {NoMsg}]
    <3> HIDE DEF text
    <3>1. msg' = msg \/ Enqueue(j, text)
      BY <2>1 DEF text
    <3> QED BY <2>2, <2>5, <3>1 DEF Enqueue, TypeOK
  <2> QED BY <1>9, <2>4, <2>6 DEF Renotify, TypeOK, osVars, envVars
<1>10. CASE Restamp(t)
  <2> DEFINE j == th[t].job
  <2>1. j \in Jobs
    BY <1>0, <1>10 DEF Restamp, Thread, JobPCs, VerdictPCs
  <2>2. row[j] \in Row
    BY <2>1 DEF TypeOK
  <2>3. [row[j] EXCEPT !.notified = TRUE] \in Row
    BY <2>2 DEF Row
  <2>4. row' \in [Jobs -> Row]
    BY <1>10, <2>1, <2>3 DEF Restamp, TypeOK
  <2>5. th' \in [Threads -> Thread]
    BY <1>0, <1>1, <1>10 DEF Restamp, TypeOK
  <2> QED BY <1>10, <2>4, <2>5 DEF Restamp, TypeOK, osVars, envVars
<1> QED BY <1>4, <1>5, <1>6, <1>7, <1>8, <1>9, <1>10 DEF Recovering

LEMMA FailureType == TypeOK /\ Failure => TypeOK'
<1> SUFFICES ASSUME TypeOK, Failure PROVE TypeOK'
  OBVIOUS
<1> USE QueueAssumption
<1>1. ASSUME NEW t \in Threads, NotifyFails(t) PROVE TypeOK'
  <2>1. SrvOK'
    BY <1>1, ResumeType DEF NotifyFails
  <2>2. faults' \in 0 .. MaxFaults
    BY <1>1 DEF NotifyFails, TypeOK
  <2> QED BY <1>1, <2>1, <2>2 DEF NotifyFails, TypeOK, SrvOK, dbVars, osVars
<1>2. ASSUME NEW t \in Threads, NEW pc \in {"commit", "kill"},
             th[t].pc \in {"start", "watch"}, faults < MaxFaults, faults' = faults + 1,
             th' = [th EXCEPT ![t].pc = pc, ![t].final = "failed"],
             UNCHANGED <<dbVars, osVars, locked, asleep, policy, crashes, cool>>
      PROVE  TypeOK'
  <2>1. th[t] \in Thread
    BY DEF TypeOK
  <2>2. [th[t] EXCEPT !.pc = pc, !.final = "failed"] \in Thread
    BY <1>2, <2>1 DEF Thread, PCs, JobPCs, VerdictPCs, Terminal
  <2>3. th' \in [Threads -> Thread]
    BY <1>2, <2>2 DEF TypeOK
  <2>4. faults' \in 0 .. MaxFaults
    BY <1>2 DEF TypeOK
  <2> QED BY <1>2, <2>3, <2>4 DEF TypeOK, dbVars, osVars
<1>3. ASSUME NEW t \in Threads, StartFails(t) PROVE TypeOK'
  BY <1>2, <1>3 DEF StartFails
<1>4. ASSUME NEW t \in Threads, MonitorWaitFails(t) PROVE TypeOK'
  BY <1>2, <1>4 DEF MonitorWaitFails
<1>5. CASE RenotifyFails(Recovery)
  <2>1. th' \in [Threads -> Thread]
    BY <1>5, AtType, ThreadNames DEF RenotifyFails, TypeOK, PCs, JobPCs, VerdictPCs
  <2>2. faults' \in 0 .. MaxFaults
    BY <1>5 DEF RenotifyFails, TypeOK
  <2> QED BY <1>5, <2>1, <2>2 DEF RenotifyFails, TypeOK, dbVars, osVars
<1>6. CASE Crash
  <2>1. Off \in Thread /\ At("select") \in Thread
    BY AtType DEF Off, PCs, JobPCs, VerdictPCs
  <2>2. th' \in [Threads -> Thread]
    BY <1>6, <2>1 DEF Crash
  <2>3. crashes' \in 0 .. MaxCrashes
    BY <1>6 DEF Crash, TypeOK
  <2> QED BY <1>6, <2>2, <2>3 DEF Crash, TypeOK, dbVars, osVars
<1> QED BY <1>1, <1>3, <1>4, <1>5, <1>6, ThreadNames DEF Failure

LEMMA TypeStep == TypeOK /\ Reports /\ [Next]_vars => TypeOK'
<1> SUFFICES ASSUME TypeOK, Reports, [Next]_vars PROVE TypeOK'
  OBVIOUS
<1>1. CASE ServerStep
  <2>1. CASE TimerFires
    <3>1. SrvOK'
      BY <2>1, AtType, ThreadNames DEF TimerFires, SrvOK, TypeOK, PCs, JobPCs, VerdictPCs
    <3> QED BY <2>1, <3>1, OnlyServer DEF TimerFires
  <2> QED BY <1>1, <2>1, ThreadNames, FinishingType, AdmittingType, WatchingType,
             PollingType, RecoveringType DEF ServerStep
<1>2. CASE UNCHANGED vars
  BY <1>2 DEF vars, TypeOK
<1> QED BY <1>1, <1>2, EnvironmentType, RequestsType, FailureType DEF Next

-----------------------------------------------------------------------------
(* Verdicts and reports *)

ReportPCs == {"notify", "stamp", "renotify", "restamp"}

\* No thread comes to a program point of ReportPCs.
Quiet == \A u \in Threads : th'[u] = th[u] \/ th'[u].pc \notin ReportPCs

\* The row of a finished job keeps its verdict and its finish time.
VerdictsStand ==
  \A j \in Jobs : IsTerminal(j) => /\ row'[j].state = row[j].state
                                   /\ row'[j].finished = row[j].finished

\* A step that reports nothing
Ordinary == /\ Quiet /\ VerdictsStand
            /\ msg' = msg
            /\ \A j \in Jobs : row'[j].notified = row[j].notified

LEMMA QuietMove ==
  ASSUME TypeOK, NEW t \in Threads, NEW r, r.pc \notin ReportPCs, th' = [th EXCEPT ![t] = r]
  PROVE  Quiet
BY DEF Quiet, TypeOK

LEMMA QuietEnd ==
  ASSUME TypeOK, NEW t \in Threads
  PROVE  /\ Abort(t) => Quiet
         /\ \A retry : EndPass(t, retry) => Quiet
         /\ Resume(t) => Quiet
         /\ FinishFailed(t) => Quiet
<1>1. Ended(t).pc \notin ReportPCs
  BY DEF Ended, Off, At, ReportPCs
<1>2. AfterFinish(t).pc \notin ReportPCs
  BY DEF AfterFinish, At, ReportPCs
<1> QED BY <1>1, <1>2, QuietMove DEF Abort, EndPass, Resume, FinishFailed

LEMMA SameRows == ASSUME row' = row, msg' = msg, Quiet PROVE Ordinary
BY DEF Ordinary, VerdictsStand

LEMMA OrdinaryReports ==
  ASSUME TypeOK, TypeOK', Reports, Ordinary
  PROVE  Reports'
<1>1. \A u \in Threads :
        (th[u].pc \in JobPCs \cup VerdictPCs => th[u].job \in Jobs)
          /\ (th[u].pc \in VerdictPCs => th[u].final \in Terminal) /\ th[u].todo \subseteq Jobs
  BY DEF TypeOK, Thread
<1>2. ASSUME NEW u \in Threads
      PROVE  /\ th'[u].pc \in {"notify", "stamp"} => row'[th'[u].job].state = th'[u].final
             /\ th'[u].pc \in {"stamp", "restamp"} => msg'[th'[u].job] # NoMsg
             /\ th'[u].pc \in {"renotify", "restamp"} => \A j \in th'[u].todo : IsTerminal(j)'
  <2>1. CASE th'[u].pc \notin ReportPCs
    BY <2>1 DEF ReportPCs
  <2>2. CASE th'[u] = th[u]
    BY <1>1, <2>2 DEF Reports, Ordinary, VerdictsStand, IsTerminal, JobPCs, VerdictPCs
  <2> QED BY <2>1, <2>2 DEF Ordinary, Quiet
<1>3. MessageMatchesRow'
  BY DEF Reports, Ordinary, MessageMatchesRow, VerdictsStand, IsTerminal
<1>4. StampMeansQueued'
  BY DEF Reports, Ordinary, StampMeansQueued
<1> QED BY <1>2, <1>3, <1>4 DEF Reports

LEMMA EnvironmentOrdinary == TypeOK /\ Environment => Ordinary
<1> SUFFICES ASSUME Environment PROVE th' = th /\ row' = row /\ msg' = msg
  BY SameRows DEF Quiet
<1> QED BY DEF Environment, WrapperExits, WrapperDies, GroupDrains, LogGrows,
               CooldownElapses, dbVars, srvVars

LEMMA RequestsOrdinary == TypeOK /\ Requests => Ordinary
<1> SUFFICES ASSUME TypeOK, NEW j \in Jobs, CreateJob(j) \/ CancelRead(j) PROVE Ordinary
  BY DEF Requests
<1> USE ThreadNames
<1>1. CASE CreateJob(j)
  <2>1. Quiet
    BY <1>1, QuietMove DEF CreateJob, At, ReportPCs
  <2>2. \A i \in Jobs : i # j => row'[i] = row[i]
    BY <1>1 DEF CreateJob, TypeOK
  <2>3. row'[j].notified = row[j].notified /\ ~IsTerminal(j)
    BY <1>1 DEF CreateJob, TypeOK, Row, IsTerminal, Terminal
  <2> QED BY <1>1, <2>1, <2>2, <2>3 DEF CreateJob, Ordinary, VerdictsStand
<1>2. CASE CancelRead(j)
  <2> DEFINE live == row[j].state = "running"
             r == [AtJob(IF live THEN "cmark" ELSE "commit", j)
                     EXCEPT !.final = "cancelled", !.seen = live]
  <2>1. r.pc \notin ReportPCs
    BY DEF AtJob, At, ReportPCs
  <2>2. Quiet
    BY <1>2, <2>1, QuietMove DEF CancelRead
  <2> QED BY <1>2, <2>2, SameRows DEF CancelRead, dbVars
<1> QED BY <1>1, <1>2

\* A thread moves and row and message tables stay.
LEMMA OrdinaryMove ==
  ASSUME TypeOK, NEW t \in Threads, NEW r, r.pc \notin ReportPCs,
         th' = [th EXCEPT ![t] = r], UNCHANGED dbVars
  PROVE  Ordinary
BY QuietMove, SameRows DEF dbVars

LEMMA MarkHoldOrdinary ==
  ASSUME TypeOK, NEW t \in Threads, NEW pc \in {"cmark", "dmark"}, NEW hold, MarkHold(t, pc, hold)
  PROVE  Ordinary
<1> DEFINE j == th[t].job
<1>1. th[t] \in Thread
  BY DEF TypeOK
<1>2. j \in Jobs /\ [th[t] EXCEPT !.pc = "kill"].pc \notin ReportPCs
  BY <1>1 DEF MarkHold, Thread, VerdictPCs, JobPCs, ReportPCs
<1>3. Quiet
  BY <1>2, QuietMove DEF MarkHold, Goto
<1>4. row[j] \in Row
  BY <1>2 DEF TypeOK
<1>5. row' = row \/ row' = [row EXCEPT ![j] = [row[j] EXCEPT !.hold = hold]]
  BY DEF MarkHold
<1>6. \A i \in Jobs : /\ row'[i].state = row[i].state /\ row'[i].finished = row[i].finished
                      /\ row'[i].notified = row[i].notified
  <2> DEFINE held == [row[j] EXCEPT !.hold = hold]
  <2>1. held.state = row[j].state /\ held.finished = row[j].finished
          /\ held.notified = row[j].notified
    BY <1>4 DEF Row
  <2> HIDE DEF held
  <2>2. \A i \in Jobs : row'[i] = row[i] \/ (i = j /\ row'[i] = held)
    BY <1>2, <1>5 DEF TypeOK, held
  <2> QED BY <2>1, <2>2
<1> QED BY <1>3, <1>6 DEF MarkHold, Ordinary, VerdictsStand

LEMMA MarkOrdinary == ASSUME TypeOK, NEW t \in Threads, Mark(t) PROVE Ordinary
<1> DEFINE j == th[t].job
           back == [At("scan") EXCEPT !.retry = th[t].retry]
           rank == NextRank(Started, OfType(JobType[j]))
           started == [row[j] EXCEPT !.state = "running", !.hold = "none",
                         !.pg = launches[j], !.started = rank]
<1>1. th[t] \in Thread
  BY DEF TypeOK
<1>2. j \in Jobs
  BY <1>1 DEF Mark, Thread, JobPCs, VerdictPCs
<1>3. back.pc \notin ReportPCs /\ AtJob("watch", j).pc \notin ReportPCs
  BY DEF At, AtJob, ReportPCs
<1>4. th' = [th EXCEPT ![t] = back, ![<<"monitor", j>>] = AtJob("watch", j)]
  BY DEF Mark
<1>5. Quiet
  <2> HIDE DEF back
  <2> QED BY <1>2, <1>3, <1>4, ThreadNames DEF Quiet, TypeOK
<1>6. row[j] \in Row
  BY <1>2 DEF TypeOK
<1>7. row' = row \/ (row[j].state = "pending" /\ row' = [row EXCEPT ![j] = started])
  BY DEF Mark
<1>8. \A i \in Jobs : i # j => row'[i] = row[i]
  <2> HIDE DEF started
  <2> QED BY <1>2, <1>7 DEF TypeOK
<1>9. started.notified = row[j].notified
  BY <1>6 DEF Row
<1>10. row'[j] = row[j] \/ (row[j].state = "pending" /\ row'[j] = started)
  <2> HIDE DEF started
  <2> QED BY <1>2, <1>7 DEF TypeOK
<1>11. IsTerminal(j) => row[j].state # "pending"
  BY DEF IsTerminal, Terminal
<1> QED BY <1>5, <1>8, <1>9, <1>10, <1>11 DEF Mark, Ordinary, VerdictsStand

LEMMA ScanOrdinary == ASSUME TypeOK, NEW t \in Threads, Scan(t) PROVE Ordinary
<1>1. UNCHANGED dbVars /\ th[t] \in Thread
  BY DEF Scan, TypeOK
<1> SUFFICES Quiet
  BY <1>1, SameRows DEF dbVars
<1>2. CASE PassHolds(t) \/ PassAtCapacity(t) \/ PassFindsNone(t)
  BY <1>2, QuietEnd DEF PassHolds, PassAtCapacity, PassFindsNone
<1>3. CASE PassDisplaces(t)
  <2>1. PICK j \in Oldest(Running("background"), Started) :
          th' = [th EXCEPT ![t].pc = "dmark", ![t].job = j,
                   ![t].final = "displaced", ![t].seen = TRUE]
    BY <1>3 DEF PassDisplaces
  <2>2. [th[t] EXCEPT !.pc = "dmark", !.job = j, !.final = "displaced", !.seen = TRUE].pc
          \notin ReportPCs
    BY <1>1 DEF Thread, ReportPCs
  <2>3. th' = [th EXCEPT ![t] = [th[t] EXCEPT !.pc = "dmark", !.job = j,
                                              !.final = "displaced", !.seen = TRUE]]
    BY <2>1
  <2> QED BY <2>2, <2>3, QuietMove
<1>4. CASE PassChooses(t)
  <2> DEFINE retry == th[t].retry \/ SkipsCoolingPerf
  <2>0. PICK type \in Types : \E j \in Oldest(Pending(type), Queued) :
          th' = [th EXCEPT ![t].pc = "start", ![t].job = j, ![t].retry = retry]
    BY <1>4 DEF PassChooses
  <2>1. PICK j \in Oldest(Pending(type), Queued) :
          th' = [th EXCEPT ![t].pc = "start", ![t].job = j, ![t].retry = retry]
    BY <2>0
  <2> HIDE DEF retry
  <2>2. [th[t] EXCEPT !.pc = "start", !.job = j, !.retry = retry].pc \notin ReportPCs
    BY <1>1 DEF Thread, ReportPCs
  <2>3. th' = [th EXCEPT ![t] = [th[t] EXCEPT !.pc = "start", !.job = j, !.retry = retry]]
    BY <2>1
  <2> QED BY <2>2, <2>3, QuietMove
<1> QED BY <1>2, <1>3, <1>4 DEF Scan

LEMMA AdmittingOrdinary == ASSUME TypeOK, NEW t \in Threads, Admitting(t) PROVE Ordinary
<1>0. th[t] \in Thread
  BY DEF TypeOK
<1>1. CASE AdmitLock(t)
  <2>1. Quiet
    <3>1. CASE ServiceReserveHolds
      <4>1. At("scan").pc \notin ReportPCs
        BY DEF At, ReportPCs
      <4> QED BY <1>1, <3>1, <4>1, QuietMove DEF AdmitLock
    <3>2. CASE ~ServiceReserveHolds
      BY <1>1, <3>2, QuietEnd DEF AdmitLock
    <3> QED BY <3>1, <3>2
  <2> QED BY <1>1, <2>1, SameRows DEF AdmitLock, dbVars
<1>2. CASE StartStale(t)
  <2>1. [At("scan") EXCEPT !.retry = th[t].retry].pc \notin ReportPCs
    BY DEF At, ReportPCs
  <2> QED BY <1>2, <2>1, OrdinaryMove DEF StartStale
<1>3. CASE Start(t)
  <2>1. [th[t] EXCEPT !.pc = "mark"].pc \notin ReportPCs
    BY <1>0 DEF Thread, ReportPCs
  <2> QED BY <1>3, <2>1, OrdinaryMove DEF Start, Goto
<1> QED BY <1>1, <1>2, <1>3, ScanOrdinary, MarkOrdinary DEF Admitting

LEMMA WatchingOrdinary == ASSUME TypeOK, NEW t \in Threads, Watching(t) PROVE Ordinary
<1>0. th[t] \in Thread /\ Off.pc \notin ReportPCs
  BY DEF TypeOK, Off, At, ReportPCs
<1>1. CASE MonitorCancelled(t)
  BY <1>0, <1>1, OrdinaryMove DEF MonitorCancelled
<1>2. ASSUME NEW pc \in {"decide", "kill"}, NEW final,
             th' = [th EXCEPT ![t].pc = pc, ![t].final = final], UNCHANGED dbVars
      PROVE  Ordinary
  <2>1. th' = [th EXCEPT ![t] = [th[t] EXCEPT !.pc = pc, !.final = final]]
    BY <1>2
  <2>2. [th[t] EXCEPT !.pc = pc, !.final = final].pc \notin ReportPCs
    BY <1>0, <1>2 DEF Thread, ReportPCs
  <2> QED BY <1>2, <2>1, <2>2, OrdinaryMove
<1>3. CASE MonitorExit(t)
  BY <1>2, <1>3 DEF MonitorExit
<1>4. CASE MonitorTimeout(t)
  BY <1>2, <1>4 DEF MonitorTimeout
<1>5. CASE MonitorDecide(t)
  <2> DEFINE r == row[th[t].job]
             decided == [th[t] EXCEPT !.pc = "commit", !.seen = TRUE,
                                      !.final = ForcedState(r.hold, th[t].final)]
  <2>1. th' = [th EXCEPT ![t] = decided] \/ th' = [th EXCEPT ![t] = Off]
    <3>1. CASE r.state = "running"
      BY <1>5, <3>1 DEF MonitorDecide
    <3>2. CASE r.state # "running"
      BY <1>5, <3>2 DEF MonitorDecide
    <3> QED BY <3>1, <3>2
  <2>2. decided.pc \notin ReportPCs
    BY <1>0 DEF Thread, ReportPCs
  <2> QED BY <1>0, <1>5, <2>1, <2>2, OrdinaryMove DEF MonitorDecide
<1> QED BY <1>1, <1>3, <1>4, <1>5 DEF Watching

LEMMA PollingOrdinary == ASSUME TypeOK, NEW t \in Threads, Polling(t) PROVE Ordinary
<1> DEFINE j == th[t].job
<1>0. th[t] \in Thread /\ LookDone(t).pc \notin ReportPCs
  BY DEF TypeOK, LookDone, Off, At, ReportPCs
<1>1. ASSUME NEW pc \in {"kill", "commit"}, NEW final
      PROVE  [th[t] EXCEPT !.pc = pc, !.final = final, !.seen = TRUE].pc \notin ReportPCs
  BY <1>0 DEF Thread, ReportPCs
<1>2. ASSUME NEW pc \in {"look", "probe"} PROVE [th[t] EXCEPT !.pc = pc].pc \notin ReportPCs
  BY <1>0 DEF Thread, ReportPCs
<1>3. CASE Look(t)
  <2>1. CASE row[j].state # "running"
    BY <1>0, <1>3, <2>1, OrdinaryMove DEF Look
  <2>2. CASE row[j].state = "running" /\ row[j].hold # "none"
    <3> DEFINE forced == ForcedState(row[j].hold, "none")
    <3>1. th' = [th EXCEPT ![t] = [th[t] EXCEPT !.pc = "kill", !.final = forced, !.seen = TRUE]]
      BY <1>3, <2>2 DEF Look
    <3> QED BY <1>1, <1>3, <3>1, OrdinaryMove DEF Look
  <2>3. CASE row[j].state = "running" /\ row[j].hold = "none" /\ receipt[j] # "none"
    <3>1. th' = [th EXCEPT ![t] = [th[t] EXCEPT !.pc = "commit", !.final = Receipt(j),
                                                !.seen = TRUE]]
      BY <1>3, <2>3 DEF Look
    <3> QED BY <1>1, <1>3, <3>1, OrdinaryMove DEF Look
  <2>4. CASE row[j].state = "running" /\ row[j].hold = "none" /\ receipt[j] = "none"
    <3>1. th' = [th EXCEPT ![t] = [th[t] EXCEPT !.pc = "probe"]]
      BY <1>3, <2>4 DEF Look, Goto
    <3> QED BY <1>2, <1>3, <3>1, OrdinaryMove DEF Look
  <2> QED BY <2>1, <2>2, <2>3, <2>4
<1>4. CASE ProbeTimedOut(t)
  <2>1. th' = [th EXCEPT ![t] = [th[t] EXCEPT !.pc = "kill", !.final = "timed_out", !.seen = TRUE]]
    BY <1>4 DEF ProbeTimedOut
  <2> QED BY <1>1, <1>4, <2>1, OrdinaryMove DEF ProbeTimedOut
<1>5. CASE ProbeDead(t)
  <2>1. th' = [th EXCEPT ![t] = [th[t] EXCEPT !.pc = "commit", !.final = "failed", !.seen = TRUE]]
    BY <1>5 DEF ProbeDead
  <2> QED BY <1>1, <1>5, <2>1, OrdinaryMove DEF ProbeDead
<1>6. CASE ProbeAlive(t)
  <2>1. j \in Jobs /\ AtJob("look", j).pc \notin ReportPCs
    BY <1>0, <1>6 DEF ProbeAlive, Thread, JobPCs, VerdictPCs, AtJob, At, ReportPCs
  <2>2. Quiet
    <3>1. CASE t = Recovery
      BY <1>0, <1>6, <2>1, <3>1, ThreadNames DEF ProbeAlive, Quiet, TypeOK
    <3>2. CASE t # Recovery
      BY <1>2, <1>6, <3>2, QuietMove DEF ProbeAlive
    <3> QED BY <3>1, <3>2
  <2> QED BY <1>6, <2>2, SameRows DEF ProbeAlive, dbVars
<1> QED BY <1>3, <1>4, <1>5, <1>6 DEF Polling

LEMMA FailureOrdinary == TypeOK /\ Failure => Ordinary
<1> SUFFICES ASSUME TypeOK, Failure PROVE Ordinary
  OBVIOUS
<1>1. ASSUME NEW t \in Threads, NotifyFails(t) PROVE Ordinary
  BY <1>1, QuietEnd, SameRows DEF NotifyFails, dbVars
<1>2. ASSUME NEW t \in Threads, NEW pc \in {"commit", "kill"},
             th' = [th EXCEPT ![t].pc = pc, ![t].final = "failed"], UNCHANGED dbVars
      PROVE  Ordinary
  <2>1. th[t] \in Thread
    BY DEF TypeOK
  <2>2. [th[t] EXCEPT !.pc = pc, !.final = "failed"].pc \notin ReportPCs
    BY <2>1 DEF Thread, ReportPCs
  <2>3. th' = [th EXCEPT ![t] = [th[t] EXCEPT !.pc = pc, !.final = "failed"]]
    BY <1>2
  <2> QED BY <1>2, <2>2, <2>3, OrdinaryMove
<1>3. ASSUME NEW t \in Threads, StartFails(t) PROVE Ordinary
  BY <1>2, <1>3 DEF StartFails
<1>4. ASSUME NEW t \in Threads, MonitorWaitFails(t) PROVE Ordinary
  BY <1>2, <1>4 DEF MonitorWaitFails
<1>5. CASE RenotifyFails(Recovery)
  BY <1>5, OrdinaryMove, ThreadNames DEF RenotifyFails, At, ReportPCs
<1>6. CASE Crash
  <2>1. Quiet
    BY <1>6 DEF Crash, Quiet, Off, At, ReportPCs
  <2> QED BY <1>6, <2>1, SameRows DEF Crash, dbVars
<1> QED BY <1>1, <1>3, <1>4, <1>5, <1>6, ThreadNames DEF Failure

\* The steps that report.  Verdicts stand and messages are never rewritten; the
\* reporting threads' claims of Reports follow thread by thread.
Keeps == VerdictsStand /\ \A j \in Jobs : msg[j] # NoMsg => msg'[j] = msg[j]

Claims(u) ==
  /\ th[u].pc \in {"notify", "stamp"} => row[th[u].job].state = th[u].final
  /\ th[u].pc \in {"stamp", "restamp"} => msg[th[u].job] # NoMsg
  /\ th[u].pc \in {"renotify", "restamp"} => \A j \in th[u].todo : IsTerminal(j)

LEMMA ClaimsStand ==
  ASSUME TypeOK, Reports, Keeps, NEW u \in Threads, th'[u] = th[u]
  PROVE  Claims(u)'
<1>1. th[u] \in Thread
  BY DEF TypeOK
<1>2. /\ th[u].pc \in {"notify", "stamp", "restamp"} => th[u].job \in Jobs
      /\ th[u].pc \in {"notify", "stamp"} => th[u].final \in Terminal
      /\ th[u].todo \subseteq Jobs
  BY <1>1 DEF Thread, JobPCs, VerdictPCs
<1>3. Claims(u)
  BY DEF Claims, Reports
<1> QED BY <1>2, <1>3 DEF Claims, Keeps, VerdictsStand, IsTerminal

\* Thread t moves to a record whose claims hold, and the tables agree.
LEMMA ReportsStep ==
  ASSUME TypeOK, Reports, Keeps, NEW t \in Threads, Claims(t)',
         \A u \in Threads : u # t => th'[u] = th[u],
         MessageMatchesRow', StampMeansQueued'
  PROVE  Reports'
<1>1. \A u \in Threads : Claims(u)'
  BY ClaimsStand
<1> QED BY <1>1 DEF Reports, Claims

LEMMA QuietClaims ==
  ASSUME NEW t \in Threads, th'[t].pc \notin ReportPCs
  PROVE  Claims(t)'
BY DEF Claims, ReportPCs

LEMMA OthersStay ==
  ASSUME TypeOK, NEW t \in Threads
  PROVE  /\ \A r : th' = [th EXCEPT ![t] = r] =>
              th'[t] = r /\ \A u \in Threads : u # t => th'[u] = th[u]
         /\ Abort(t) \/ Resume(t) \/ FinishFailed(t) =>
              th'[t].pc \notin ReportPCs /\ \A u \in Threads : u # t => th'[u] = th[u]
<1>1. \A r : th' = [th EXCEPT ![t] = r] =>
        th'[t] = r /\ \A u \in Threads : u # t => th'[u] = th[u]
  BY DEF TypeOK
<1>2. Ended(t).pc \notin ReportPCs /\ AfterFinish(t).pc \notin ReportPCs
  BY DEF Ended, Off, AfterFinish, At, ReportPCs
<1> QED BY <1>1, <1>2 DEF Abort, Resume, FinishFailed

LEMMA CommitReports ==
  ASSUME TypeOK, Reports, NEW t \in Threads, Commit(t)
  PROVE  Reports' /\ VerdictsStand
<1> DEFINE j == th[t].job
           ended == [row[j] EXCEPT !.state = th[t].final, !.hold = "none",
                                   !.finished = NextRank(Finished, Jobs)]
<1>0. th[t] \in Thread
  BY DEF TypeOK
<1>1. j \in Jobs /\ th[t].final \in Terminal
  BY <1>0 DEF Commit, Thread, JobPCs, VerdictPCs
<1>2. msg' = msg
  BY DEF Commit
<1>3. CASE IsTerminal(j)
  <2>1. row' = row /\ (Abort(t) \/ Resume(t))
    BY <1>3 DEF Commit
  <2>2. th'[t].pc \notin ReportPCs /\ \A u \in Threads : u # t => th'[u] = th[u]
    BY <2>1, OthersStay
  <2>3. Keeps
    BY <1>2, <2>1 DEF Keeps, VerdictsStand
  <2>4. MessageMatchesRow' /\ StampMeansQueued'
    BY <1>2, <2>1 DEF Reports, MessageMatchesRow, StampMeansQueued, IsTerminal
  <2> QED BY <2>2, <2>3, <2>4, QuietClaims, ReportsStep DEF Keeps
<1>4. CASE ~IsTerminal(j)
  <2>1. /\ row' = [row EXCEPT ![j] = ended]
        /\ th' = [th EXCEPT ![t] = [th[t] EXCEPT !.pc = "notify"]]
    BY <1>4 DEF Commit, Goto
  <2>2. row[j] \in Row /\ [th[t] EXCEPT !.pc = "notify"].pc = "notify"
        /\ [th[t] EXCEPT !.pc = "notify"].job = j
        /\ [th[t] EXCEPT !.pc = "notify"].final = th[t].final
    BY <1>0, <1>1 DEF TypeOK, Thread
  <2>3. ended.state = th[t].final /\ ended.notified = row[j].notified
    BY <2>2 DEF Row
  <2> HIDE DEF ended
  <2>4. row'[j] = ended /\ \A i \in Jobs : i # j => row'[i] = row[i]
    BY <1>1, <2>1 DEF TypeOK
  <2>5. msg[j] = NoMsg /\ ~row[j].notified
    BY <1>1, <1>4 DEF Reports, MessageMatchesRow, StampMeansQueued
  <2>6. Keeps
    BY <1>2, <1>4, <2>4 DEF Keeps, VerdictsStand
  <2>7. Claims(t)'
    <3>1. th'[t] = [th[t] EXCEPT !.pc = "notify"]
      BY <2>1, OthersStay
    <3>2. th'[t].pc = "notify" /\ row'[th'[t].job].state = th'[t].final
      BY <2>2, <2>3, <2>4, <3>1
    <3> QED BY <3>2 DEF Claims
  <2>8. MessageMatchesRow'
    BY <1>2, <2>4, <2>5 DEF Reports, MessageMatchesRow, IsTerminal
  <2>9. StampMeansQueued'
    BY <1>2, <2>3, <2>4, <2>5 DEF Reports, StampMeansQueued
  <2> QED BY <2>1, <2>6, <2>7, <2>8, <2>9, OthersStay, ReportsStep DEF Keeps
<1> QED BY <1>3, <1>4

\* Queueing a text about the verdict in the row keeps the two tables in step.
LEMMA EnqueueKeeps ==
  ASSUME TypeOK, Reports, row' = row, NEW j \in Jobs, NEW text \in Text,
         Enqueue(j, text), IsTerminal(j), text.state = row[j].state
  PROVE  /\ Keeps /\ MessageMatchesRow' /\ StampMeansQueued'
         /\ msg'[j] # NoMsg
<1>1. /\ msg'[j] = (IF msg[j] = NoMsg THEN text ELSE msg[j])
      /\ \A i \in Jobs : i # j => msg'[i] = msg[i]
  BY DEF Enqueue, TypeOK
<1>2. text # NoMsg
  BY DEF Text, NoMsg, Terminal
<1>3. msg'[j] # NoMsg
  BY <1>1, <1>2
<1>4. Keeps
  BY <1>1 DEF Keeps, VerdictsStand
<1>5. MessageMatchesRow'
  BY <1>1 DEF Reports, MessageMatchesRow, IsTerminal
<1>6. StampMeansQueued'
  BY <1>1, <1>3 DEF Reports, StampMeansQueued
<1> QED BY <1>3, <1>4, <1>5, <1>6

LEMMA NotifyReports ==
  ASSUME TypeOK, Reports, NEW t \in Threads, Notify(t)
  PROVE  Reports' /\ VerdictsStand
<1> DEFINE j == th[t].job
           text == TextOf(j, th[t].final, th[t].seen)
<1>0. th[t] \in Thread
  BY DEF TypeOK
<1>1. j \in Jobs /\ th[t].final \in Terminal /\ th[t].seen \in BOOLEAN
  BY <1>0 DEF Notify, Thread, JobPCs, VerdictPCs
<1>2. row[j].state = th[t].final
  BY DEF Notify, Reports
<1>3. text \in Text /\ text.state = row[j].state /\ IsTerminal(j)
  BY <1>1, <1>2 DEF TextOf, Text, TypeOK, IsTerminal
<1>4. row' = row /\ Enqueue(j, text)
  BY DEF Notify
<1> HIDE DEF text
<1>5. /\ Keeps /\ MessageMatchesRow' /\ StampMeansQueued'
      /\ msg'[j] # NoMsg
  BY <1>1, <1>3, <1>4, EnqueueKeeps
<1>6. CASE Enqueued(j, text)
  <2>1. th' = [th EXCEPT ![t] = [th[t] EXCEPT !.pc = "stamp"]]
    BY <1>6 DEF Notify, Goto, text
  <2>2. /\ [th[t] EXCEPT !.pc = "stamp"].pc = "stamp"
        /\ [th[t] EXCEPT !.pc = "stamp"].job = j
        /\ [th[t] EXCEPT !.pc = "stamp"].final = th[t].final
    BY <1>0 DEF Thread
  <2>3. Claims(t)'
    BY <1>2, <1>4, <1>5, <2>1, <2>2, OthersStay DEF Claims
  <2> QED BY <1>5, <2>1, <2>3, OthersStay, ReportsStep DEF Keeps
<1>7. CASE ~Enqueued(j, text)
  <2>1. FinishFailed(t)
    BY <1>7 DEF Notify, text
  <2> QED BY <1>5, <2>1, OthersStay, QuietClaims, ReportsStep DEF Keeps
<1> QED BY <1>6, <1>7

\* Setting completion_notified_at of a job whose message is queued
LEMMA StampKeeps ==
  ASSUME TypeOK, Reports, msg' = msg, NEW j \in Jobs, msg[j] # NoMsg,
         row' = [row EXCEPT ![j].notified = TRUE]
  PROVE  Keeps /\ MessageMatchesRow' /\ StampMeansQueued'
<1>1. row[j] \in Row
  BY DEF TypeOK
<1>2. \A i \in Jobs : /\ row'[i].state = row[i].state /\ row'[i].finished = row[i].finished
                      /\ i # j => row'[i].notified = row[i].notified
  BY <1>1 DEF TypeOK, Row
<1>3. Keeps
  BY <1>2 DEF Keeps, VerdictsStand
<1>4. MessageMatchesRow'
  BY <1>2 DEF Reports, MessageMatchesRow, IsTerminal
<1>5. StampMeansQueued'
  BY <1>2 DEF Reports, StampMeansQueued
<1> QED BY <1>3, <1>4, <1>5

LEMMA StampReports ==
  ASSUME TypeOK, Reports, NEW t \in Threads, Stamp(t)
  PROVE  Reports' /\ VerdictsStand
<1> DEFINE j == th[t].job
<1>0. th[t] \in Thread
  BY DEF TypeOK
<1>1. j \in Jobs /\ msg[j] # NoMsg
  BY <1>0 DEF Stamp, Thread, JobPCs, VerdictPCs, Reports
<1>2. msg' = msg /\ row' = [row EXCEPT ![j].notified = TRUE] /\ Resume(t)
  BY DEF Stamp
<1>3. Keeps /\ MessageMatchesRow' /\ StampMeansQueued'
  BY <1>1, <1>2, StampKeeps
<1> QED BY <1>2, <1>3, OthersStay, QuietClaims, ReportsStep DEF Keeps

LEMMA RecoveringReports ==
  ASSUME TypeOK, TypeOK', Reports, NEW t \in Threads, Recovering(t)
  PROVE  Reports' /\ VerdictsStand
<1>0. th[t] \in Thread /\ th[t].todo \subseteq Jobs
  BY DEF TypeOK, Thread
<1>1. ASSUME Ordinary PROVE Reports' /\ VerdictsStand
  BY <1>1, OrdinaryReports DEF Ordinary
<1>2. CASE RecoverSelect(t) \/ RecoverDone(t) \/ RenotifyDone(t)
  <2>1. [At("each") EXCEPT !.todo = AllRunning].pc \notin ReportPCs
        /\ At("lock").pc \notin ReportPCs /\ At("sleep").pc \notin ReportPCs
    BY DEF At, ReportPCs
  <2> QED BY <1>1, <1>2, <2>1, OrdinaryMove DEF RecoverSelect, RecoverDone, RenotifyDone
<1>3. CASE RecoverNext(t)
  <2>1. PICK j \in Oldest(th[t].todo, Queued) :
          th' = [th EXCEPT ![t] = [AtJob("look", j) EXCEPT !.todo = th[t].todo \ {j}]]
    BY <1>3 DEF RecoverNext
  <2>2. [AtJob("look", j) EXCEPT !.todo = th[t].todo \ {j}].pc \notin ReportPCs
    BY DEF At, AtJob, ReportPCs
  <2> QED BY <1>1, <1>3, <2>1, <2>2, OrdinaryMove DEF RecoverNext
<1>4. CASE RetryTick(t)
  <2> DEFINE r == [At("renotify") EXCEPT !.todo = Unnotified]
  <2>1. th' = [th EXCEPT ![t] = r] /\ row' = row /\ msg' = msg
    BY <1>4 DEF RetryTick, dbVars
  <2>2. r.pc = "renotify" /\ r.todo = Unnotified
    BY DEF At
  <2>3. Keeps /\ MessageMatchesRow' /\ StampMeansQueued'
    BY <2>1 DEF Keeps, VerdictsStand, Reports, MessageMatchesRow, StampMeansQueued, IsTerminal
  <2>4. Claims(t)'
    <3>1. th'[t].pc = "renotify" /\ th'[t].todo = Unnotified
      BY <2>1, <2>2, OthersStay
    <3> QED BY <2>1, <3>1 DEF Claims, Unnotified, IsTerminal
  <2> HIDE DEF r
  <2> QED BY <2>1, <2>3, <2>4, OthersStay, ReportsStep DEF Keeps
<1>5. CASE Renotify(t)
  <2>0. \A j \in th[t].todo : IsTerminal(j)
    BY <1>5 DEF Renotify, Reports
  <2>1. PICK j \in Oldest(th[t].todo, Finished) :
          LET rest == th[t].todo \ {j}
              text == TextOf(j, row[j].state, row[j].started # 0)
          IN  \/ th' = [th EXCEPT ![t].todo = rest] /\ UNCHANGED msg
              \/ /\ Enqueue(j, text)
                 /\ th' = [th EXCEPT ![t] = [AtJob("restamp", j) EXCEPT !.todo = rest]]
              \/ th' = [th EXCEPT ![t] = At("sleep")] /\ UNCHANGED msg
    BY <1>5 DEF Renotify
  <2> DEFINE rest == th[t].todo \ {j}
             text == TextOf(j, row[j].state, row[j].started # 0)
  <2>2. j \in Jobs /\ j \in th[t].todo /\ IsTerminal(j) /\ row' = row
    BY <1>0, <1>5, <2>0 DEF Oldest, Renotify
  <2>3. text \in Text /\ text.state = row[j].state
    BY <2>2 DEF TextOf, Text, TypeOK, IsTerminal
  <2>4. \A i \in rest : IsTerminal(i)'
    BY <2>0, <2>2 DEF IsTerminal
  <2>5. ASSUME msg' = msg PROVE Keeps /\ MessageMatchesRow' /\ StampMeansQueued'
    BY <2>2, <2>5 DEF Keeps, VerdictsStand, Reports, MessageMatchesRow, StampMeansQueued, IsTerminal
  <2> HIDE DEF rest, text
  <2>6. CASE th' = [th EXCEPT ![t].todo = rest] /\ UNCHANGED msg
    <3>1. th' = [th EXCEPT ![t] = [th[t] EXCEPT !.todo = rest]]
      BY <2>6
    <3>2. [th[t] EXCEPT !.todo = rest].pc = "renotify" /\ [th[t] EXCEPT !.todo = rest].todo = rest
      BY <1>0, <1>5 DEF Thread, Renotify
    <3>3. Claims(t)'
      BY <2>4, <3>1, <3>2, OthersStay DEF Claims
    <3> QED BY <2>5, <2>6, <3>1, <3>3, OthersStay, ReportsStep DEF Keeps
  <2>7. CASE /\ Enqueue(j, text)
             /\ th' = [th EXCEPT ![t] = [AtJob("restamp", j) EXCEPT !.todo = rest]]
    <3> DEFINE r == [AtJob("restamp", j) EXCEPT !.todo = rest]
    <3>1. r.pc = "restamp" /\ r.job = j /\ r.todo = rest
      BY DEF AtJob, At
    <3>2. /\ Keeps /\ MessageMatchesRow' /\ StampMeansQueued'
          /\ msg'[j] # NoMsg
      BY <2>2, <2>3, <2>7, EnqueueKeeps
    <3>3. Claims(t)'
      BY <2>4, <2>7, <3>1, <3>2, OthersStay DEF Claims
    <3> QED BY <2>7, <3>2, <3>3, OthersStay, ReportsStep DEF Keeps
  <2>8. CASE th' = [th EXCEPT ![t] = At("sleep")] /\ UNCHANGED msg
    <3>0. At("sleep").pc \notin ReportPCs
      BY DEF At, ReportPCs
    <3>1. th'[t].pc \notin ReportPCs
      BY <2>8, <3>0, OthersStay
    <3> QED BY <2>5, <2>8, <3>1, OthersStay, QuietClaims, ReportsStep DEF Keeps
  <2> QED BY <2>1, <2>6, <2>7, <2>8 DEF rest, text
<1>6. CASE Restamp(t)
  <2> DEFINE j == th[t].job
             r == [At("renotify") EXCEPT !.todo = th[t].todo]
  <2>1. j \in Jobs /\ msg[j] # NoMsg /\ \A i \in th[t].todo : IsTerminal(i)
    BY <1>0, <1>6 DEF Restamp, Thread, JobPCs, VerdictPCs, Reports
  <2>2. th' = [th EXCEPT ![t] = r] /\ msg' = msg /\ row' = [row EXCEPT ![j].notified = TRUE]
    BY <1>6 DEF Restamp
  <2>3. r.pc = "renotify" /\ r.todo = th[t].todo
    BY DEF At
  <2> HIDE DEF r
  <2>4. Keeps /\ MessageMatchesRow' /\ StampMeansQueued'
    BY <2>1, <2>2, StampKeeps
  <2>5. Claims(t)'
    <3>1. \A i \in th[t].todo : IsTerminal(i)'
      BY <1>0, <2>1, <2>4 DEF Keeps, VerdictsStand, IsTerminal
    <3> QED BY <2>2, <2>3, <3>1, OthersStay DEF Claims
  <2> QED BY <2>2, <2>4, <2>5, OthersStay, ReportsStep DEF Keeps
<1> QED BY <1>2, <1>3, <1>4, <1>5, <1>6 DEF Recovering

LEMMA ReportsStepAll ==
  TypeOK /\ Reports /\ [Next]_vars => Reports' /\ VerdictsStand
<1> SUFFICES ASSUME TypeOK, Reports, [Next]_vars PROVE Reports' /\ VerdictsStand
  OBVIOUS
<1>0. TypeOK'
  BY TypeStep
<1>1. ASSUME Ordinary PROVE Reports' /\ VerdictsStand
  BY <1>0, <1>1, OrdinaryReports DEF Ordinary
<1>2. ASSUME NEW t \in Threads, Finishing(t) PROVE Reports' /\ VerdictsStand
  <2>1. CASE CancelMark(t) \/ DisplaceMark(t)
    BY <1>1, <2>1, MarkHoldOrdinary DEF CancelMark, DisplaceMark
  <2>2. CASE Terminate(t)
    <3>1. th[t] \in Thread
      BY DEF TypeOK
    <3>2. \A pc \in {"decide", "commit"} : [th[t] EXCEPT !.pc = pc].pc \notin ReportPCs
      BY <3>1 DEF Thread, ReportPCs
    <3> QED BY <1>1, <2>2, <3>2, OrdinaryMove DEF Terminate, Goto
  <2> QED BY <1>2, <2>1, <2>2, CommitReports, NotifyReports, StampReports DEF Finishing
<1>3. CASE ServerStep
  <2>1. CASE TimerFires
    <3>1. At("lock").pc \notin ReportPCs
      BY DEF At, ReportPCs
    <3> QED BY <1>1, <2>1, <3>1, OrdinaryMove, ThreadNames DEF TimerFires
  <2> QED BY <1>0, <1>1, <1>2, <1>3, <2>1, ThreadNames, AdmittingOrdinary, WatchingOrdinary,
             PollingOrdinary, RecoveringReports DEF ServerStep
<1>4. CASE UNCHANGED vars
  <2>1. Ordinary
    BY <1>4, SameRows DEF vars, Quiet
  <2> QED BY <1>1, <2>1
<1> QED BY <1>1, <1>3, <1>4, EnvironmentOrdinary, RequestsOrdinary, FailureOrdinary DEF Next

LEMMA InvInit == Init => Inv
<1> SUFFICES ASSUME Init PROVE Reports
  BY TypeInit DEF Inv
<1>1. \A t \in Threads : th[t].pc \in {"sleep", "off"}
  BY DEF Init, Off, At
<1>2. \A j \in Jobs : msg[j] = NoMsg /\ ~row[j].notified
  BY DEF Init, NoRow
<1> QED BY <1>1, <1>2 DEF Reports, MessageMatchesRow, StampMeansQueued

LEMMA InvStep == Inv /\ [Next]_vars => Inv'
BY TypeStep, ReportsStepAll DEF Inv

-----------------------------------------------------------------------------
(* Theorems *)

\* Every reachable state of the tables, files, process groups and threads has its
\* type; in particular a thread that holds a verdict holds one of a known job.
THEOREM TypeCorrect == Spec => []TypeOK
<1>1. Inv => TypeOK
  BY DEF Inv
<1> QED BY <1>1, InvInit, InvStep, PTL DEF Spec

\* A completion message is about a finished job and announces the verdict in the
\* table, for any number of jobs, crashes, failed enqueues and cancellations.
THEOREM MessagesMatch == Spec => []MessageMatchesRow
<1>1. Inv => MessageMatchesRow
  BY DEF Inv, Reports
<1> QED BY <1>1, InvInit, InvStep, PTL DEF Spec

\* A row is stamped only when the requester's message is queued.
THEOREM StampsMeanQueued == Spec => []StampMeansQueued
<1>1. Inv => StampMeansQueued
  BY DEF Inv, Reports
<1> QED BY <1>1, InvInit, InvStep, PTL DEF Spec

\* The first verdict of a job is its last.
THEOREM VerdictsAreFinal == Spec => TerminalIsFinal
<1>1. Inv /\ [Next]_vars => VerdictsStand
  BY ReportsStepAll DEF Inv
<1>2. Inv /\ [Next]_vars =>
        [\A j \in Jobs : IsTerminal(j) => /\ row'[j].state = row[j].state
                                          /\ row'[j].finished = row[j].finished]_vars
  BY <1>1 DEF VerdictsStand
<1> QED BY <1>2, InvInit, InvStep, PTL DEF Spec, TerminalIsFinal

-----------------------------------------------------------------------------
(* Admission *)

\* Program points of a pass, and those at which a thread may hold the lock
PassPCs   == {"scan", "start", "mark", "dmark"}
HolderPCs == PassPCs \cup {"kill", "commit", "notify", "stamp"}

\* QUEUE_ADMISSION_LOCK has one holder, and a pass is inside it.
OneHolder ==
  /\ \A t, u \in locked : t = u
  /\ \A t \in Threads : th[t].pc \in PassPCs => t \in locked
  /\ \A t \in locked : th[t].pc \in HolderPCs

\* Recovery has job j still before it.
Unvisited(j) ==
  \/ th[Recovery].pc = "select"
  \/ /\ Recovery \notin locked
     /\ th[Recovery].pc \notin {"off", "lock", "sleep", "renotify", "restamp"}
     /\ th[Recovery].job = j \/ j \in th[Recovery].todo

\* Threads work on submitted jobs, and the threads that are spawned for a job did
\* not run before.
SpawnedOnce ==
  /\ \A t \in Threads :
       /\ th[t].pc \in JobPCs \cup VerdictPCs => row[th[t].job].state # "absent"
       /\ \A j \in th[t].todo : row[j].state # "absent"
       /\ t \in locked \/ th[t].job \notin th[t].todo
       /\ th[t].pc \in {"start", "mark"} => t # <<"monitor", th[t].job>>
  /\ \A j \in Jobs :
       /\ row[j].state = "absent" => th[<<"create", j>>].pc = "off" /\ launches[j] = 0
       /\ row[j].state \in {"absent", "pending"} => th[<<"monitor", j>>].pc = "off"
       /\ Unvisited(j) => th[<<"poller", j>>].pc = "off"

\* A job whose row is still pending was not launched by this server, unless the
\* thread that launched it is about to mark it.
LaunchedOnce ==
  \A j \in Jobs :
    /\ launches[j] <= crashes + 1
    /\ row[j].state = "pending" /\ launches[j] > crashes =>
         \E t \in Threads : th[t].pc = "mark" /\ th[t].job = j

\* What a pass found when it chose a job still holds when it marks the job.
RoomFor(j) ==
  /\ Cardinality(AllRunning) < policy.max
  /\ Cardinality(Running(JobType[j])) < policy.cap[JobType[j]]
  /\ Running("perf") = {}
  /\ JobType[j] = "perf" => Running("tests") = {} /\ Running("background") = {}

RoomHeld == \A t \in Threads : th[t].pc \in {"start", "mark"} => RoomFor(th[t].job)

Admission == OneHolder /\ SpawnedOnce /\ LaunchedOnce /\ RoomHeld /\ PerfRunsAlone

-----------------------------------------------------------------------------
(* How a step looks to admission: most steps only move one thread *)

Others(t) == \A u \in Threads : u # t => th'[u] = th[u]

\* Rows keep their state or get a verdict.
RowsClose ==
  \A j \in Jobs : \/ row'[j].state = row[j].state
                  \/ row'[j].state \in Terminal /\ row[j].state # "absent"

\* Thread t goes on, without choosing or launching a job.
Walks(t) ==
  /\ Others(t) /\ RowsClose
  /\ UNCHANGED <<launches, policy, crashes>>
  /\ locked' \in {locked, locked \ {t}}
  /\ th[t].pc # "mark"
  /\ th[t].pc = "off" => t \in ({"cancel"} \X Jobs) \cup {Timer}
  /\ th'[t].pc \notin {"start", "mark"}
  /\ th'[t].pc \in PassPCs => t \in locked'
  /\ t \in locked' => th'[t].pc \in HolderPCs
  /\ th'[t].pc \in JobPCs \cup VerdictPCs => row[th'[t].job].state # "absent"
  /\ \A j \in th'[t].todo : row[j].state # "absent"
  /\ t \in locked' \/ th'[t].job \notin th'[t].todo
  /\ \A j \in Jobs : Unvisited(j)' => Unvisited(j)

\* The set of running jobs does not grow, so room stays room.
LEMMA RoomStays ==
  ASSUME TypeOK, RowsClose, policy' = policy, NEW j \in Jobs, RoomFor(j)
  PROVE  RoomFor(j)'
<1>1. AllRunning' \subseteq AllRunning /\ \A type : Running(type)' \subseteq Running(type)
  BY DEF RowsClose, AllRunning, Running, Terminal
<1>2. IsFiniteSet(AllRunning) /\ \A type : IsFiniteSet(Running(type))
  BY QueueAssumption, FS_Subset DEF AllRunning, Running
<1>3. /\ Cardinality(AllRunning') <= Cardinality(AllRunning)
      /\ Cardinality(AllRunning') \in Nat /\ Cardinality(AllRunning) \in Nat
  BY <1>1, <1>2, FS_Subset, FS_CardinalityType
<1>4. \A type : /\ Cardinality(Running(type)') <= Cardinality(Running(type))
                /\ Cardinality(Running(type)') \in Nat /\ Cardinality(Running(type)) \in Nat
  BY <1>1, <1>2, FS_Subset, FS_CardinalityType
<1>5. policy.max \in Nat /\ policy.cap[JobType[j]] \in Nat
  BY QueueAssumption DEF TypeOK, Policy
<1>6. Cardinality(AllRunning') < policy.max
  BY <1>3, <1>5 DEF RoomFor
<1>7. Cardinality(Running(JobType[j])') < policy.cap[JobType[j]]
  BY <1>4, <1>5 DEF RoomFor
<1> QED BY <1>1, <1>6, <1>7 DEF RoomFor

LEMMA AloneStays == ASSUME RowsClose, PerfRunsAlone PROVE PerfRunsAlone'
<1>1. \A type : Running(type)' \subseteq Running(type)
  BY DEF RowsClose, Running, Terminal
<1> QED BY <1>1 DEF PerfRunsAlone

LEMMA WalkKeeps ==
  ASSUME TypeOK, TypeOK', Admission, NEW t \in Threads, Walks(t)
  PROVE  Admission'
<1>0. /\ \A u \in Threads : th[u] \in Thread
      /\ \A u \in Threads : th[u].todo \subseteq Jobs
                            /\ (th[u].pc \in JobPCs \cup VerdictPCs => th[u].job \in Jobs)
  BY DEF TypeOK, Thread
<1>1. OneHolder'
  BY DEF Admission, OneHolder, Walks, Others, TypeOK
<1>2. SpawnedOnce'
  <2>1. ASSUME NEW u \in Threads
        PROVE  /\ th'[u].pc \in JobPCs \cup VerdictPCs => row'[th'[u].job].state # "absent"
               /\ \A j \in th'[u].todo : row'[j].state # "absent"
               /\ u \in locked' \/ th'[u].job \notin th'[u].todo
               /\ th'[u].pc \in {"start", "mark"} => u # <<"monitor", th'[u].job>>
    <3>1. \A j \in Jobs : row[j].state # "absent" => row'[j].state # "absent"
      BY DEF Walks, RowsClose, Terminal
    <3>2. /\ th'[u].pc \in JobPCs \cup VerdictPCs => th'[u].job \in Jobs
          /\ th'[u].todo \subseteq Jobs
      BY DEF TypeOK, Thread
    <3>3. CASE u = t
      BY <3>1, <3>2, <3>3 DEF Walks
    <3>4. CASE u # t
      BY <3>1, <3>2, <3>4 DEF Walks, Others, Admission, SpawnedOnce
    <3> QED BY <3>3, <3>4
  <2>2. ASSUME NEW j \in Jobs
        PROVE  /\ row'[j].state = "absent" => th'[<<"create", j>>].pc = "off" /\ launches'[j] = 0
               /\ row'[j].state \in {"absent", "pending"} => th'[<<"monitor", j>>].pc = "off"
               /\ Unvisited(j)' => th'[<<"poller", j>>].pc = "off"
    <3>1. row'[j].state \in {"absent", "pending"} => row'[j].state = row[j].state
      BY DEF Walks, RowsClose, Terminal
    <3>2. ASSUME NEW k \in {"create", "monitor", "poller"}
          PROVE  <<k, j>> \in Threads /\ (th[<<k, j>>].pc = "off" => th'[<<k, j>>] = th[<<k, j>>])
      <4>1. <<k, j>> \in Threads /\ <<k, j>> # Timer /\ <<k, j>> \notin {"cancel"} \X Jobs
        BY ThreadNames DEF Timer
      <4> QED BY <4>1 DEF Walks, Others
    <3> QED BY <3>1, <3>2 DEF Walks, Admission, SpawnedOnce
  <2> QED BY <2>1, <2>2 DEF SpawnedOnce
<1>3. LaunchedOnce'
  <2>1. ASSUME NEW j \in Jobs, row'[j].state = "pending", launches'[j] > crashes'
        PROVE  \E u \in Threads : th'[u].pc = "mark" /\ th'[u].job = j
    <3>1. row[j].state = "pending" /\ launches[j] > crashes
      BY <2>1 DEF Walks, RowsClose, Terminal
    <3>2. PICK u \in Threads : th[u].pc = "mark" /\ th[u].job = j
      BY <3>1 DEF Admission, LaunchedOnce
    <3> QED BY <3>2 DEF Walks, Others
  <2> QED BY <2>1 DEF LaunchedOnce, Admission, Walks
<1>4. RoomHeld'
  <2> SUFFICES ASSUME NEW u \in Threads, th'[u].pc \in {"start", "mark"} PROVE RoomFor(th[u].job)'
    BY DEF RoomHeld
  <2>1. u # t /\ th'[u] = th[u]
    BY DEF Walks, Others
  <2>2. th[u].job \in Jobs /\ RoomFor(th[u].job)
    BY <1>0, <2>1 DEF Admission, RoomHeld, JobPCs
  <2>3. RowsClose /\ policy' = policy
    BY DEF Walks
  <2>4. \A j \in Jobs : RoomFor(j) => RoomFor(j)'
    BY <2>3, RoomStays
  <2>5. RoomFor(th[u].job)' <=> \E j \in {th'[u].job} : RoomFor(j)'
    BY DEF RoomFor
  <2> QED BY <2>1, <2>2, <2>4, <2>5
<1>5. PerfRunsAlone'
  BY AloneStays DEF Admission, Walks
<1> QED BY <1>1, <1>2, <1>3, <1>4, <1>5 DEF Admission

-----------------------------------------------------------------------------
(* Steps that only walk *)

\* What a thread that still runs knows about its record
LEMMA Known ==
  ASSUME TypeOK, Admission, NEW t \in Threads
  PROVE  /\ th[t] \in Thread /\ th[t].todo \subseteq Jobs
         /\ th[t].pc \in JobPCs \cup VerdictPCs =>
              th[t].job \in Jobs /\ row[th[t].job].state # "absent"
         /\ \A j \in th[t].todo : row[j].state # "absent"
         /\ t \in locked \/ th[t].job \notin th[t].todo
         /\ th[t].pc \in PassPCs => t \in locked
         /\ t \in locked => th[t].pc \in HolderPCs
<1>1. th[t] \in Thread
  BY DEF TypeOK
<1> QED BY <1>1 DEF Admission, OneHolder, SpawnedOnce, Thread

\* Thread t moves to record r and nothing else changes.
LEMMA WalkTo ==
  ASSUME TypeOK, Admission, NEW t \in Threads, NEW r, th' = [th EXCEPT ![t] = r],
         UNCHANGED <<locked, launches, policy, crashes>>, RowsClose,
         th[t].pc # "mark",
         th[t].pc = "off" => t \in ({"cancel"} \X Jobs) \cup {Timer},
         r.pc \notin {"start", "mark"},
         r.pc \in PassPCs => t \in locked,
         t \in locked => r.pc \in HolderPCs,
         r.pc \in JobPCs \cup VerdictPCs => row[r.job].state # "absent",
         \A j \in r.todo : row[j].state # "absent",
         t \in locked \/ r.job \notin r.todo,
         t = Recovery => \A j \in Jobs :
           (r.pc = "select" \/ (Recovery \notin locked
              /\ r.pc \notin {"off", "lock", "sleep", "renotify", "restamp"}
              /\ (r.job = j \/ j \in r.todo))) => Unvisited(j)
  PROVE  Walks(t)
<1>1. th'[t] = r /\ Others(t)
  BY OthersStay DEF Others
<1>2. \A j \in Jobs : Unvisited(j)' => Unvisited(j)
  <2>1. CASE t = Recovery
    BY <1>1, <2>1 DEF Unvisited
  <2>2. CASE t # Recovery
    BY <1>1, <2>2, ThreadNames DEF Unvisited, Others
  <2> QED BY <2>1, <2>2
<1> QED BY <1>1, <1>2 DEF Walks

LEMMA RowsSame == ASSUME row' = row PROVE RowsClose
BY DEF RowsClose

LEMMA EndWalks ==
  ASSUME TypeOK, Admission, NEW t \in Threads, RowsClose,
         UNCHANGED <<launches, policy, crashes>>, th[t].pc \notin {"off", "mark"},
         Abort(t) \/ \E retry \in BOOLEAN : EndPass(t, retry)
  PROVE  Walks(t)
<1>1. th' = [th EXCEPT ![t] = Ended(t)] /\ locked' = locked \ {t}
  BY DEF Abort, EndPass
<1>2. th'[t] = Ended(t) /\ Others(t)
  BY <1>1, OthersStay DEF Others
<1>3. Ended(t).pc = (IF t = Recovery THEN "sleep" ELSE "off") /\ Ended(t).todo = {}
  BY DEF Ended, Off, At
<1>4. \A j \in Jobs : Unvisited(j)' => Unvisited(j)
  <2>1. CASE t = Recovery
    BY <1>2, <1>3, <2>1 DEF Unvisited
  <2>2. CASE t # Recovery
    BY <1>1, <1>2, <2>2, ThreadNames DEF Unvisited, Others
  <2> QED BY <2>1, <2>2
<1> QED BY <1>1, <1>2, <1>3, <1>4 DEF Walks, PassPCs, HolderPCs, JobPCs, VerdictPCs

LEMMA ResumeWalks ==
  ASSUME TypeOK, Admission, NEW t \in Threads, RowsClose,
         UNCHANGED <<launches, policy, crashes>>, th[t].pc \in {"commit", "notify", "stamp"},
         Abort(t) \/ Resume(t) \/ FinishFailed(t)
  PROVE  Walks(t)
<1>1. CASE Abort(t)
  BY <1>1, EndWalks
<1>2. CASE Resume(t)
  <2> DEFINE r == AfterFinish(t)
  <2>1. th' = [th EXCEPT ![t] = r] /\ locked' = locked
    BY <1>2 DEF Resume
  <2>2. \/ t \in locked /\ r.pc = "scan" /\ r.todo = {}
        \/ t \notin locked /\ t = Recovery /\ r.pc = "each" /\ r.todo = th[t].todo /\ r.job = NoJob
        \/ t \notin locked /\ t # Recovery /\ r.pc = "lock" /\ r.todo = {}
    <3>1. CASE t \in locked
      BY <3>1 DEF AfterFinish, At
    <3>2. CASE t \notin locked /\ t = Recovery
      BY <3>2 DEF AfterFinish, At
    <3>3. CASE t \notin locked /\ t # Recovery
      BY <3>3 DEF AfterFinish, At
    <3> QED BY <3>1, <3>2, <3>3
  <2> HIDE DEF r
  <2>3. (\A j \in r.todo : row[j].state # "absent") /\ (t \in locked \/ r.job \notin r.todo)
    BY <2>2, Known, QueueAssumption
  <2>4. t = Recovery => \A j \in Jobs :
          (r.pc = "select" \/ (Recovery \notin locked
             /\ r.pc \notin {"off", "lock", "sleep", "renotify", "restamp"}
             /\ (r.job = j \/ j \in r.todo))) => Unvisited(j)
    BY <2>2, QueueAssumption DEF Unvisited
  <2>5. r.pc \notin JobPCs \cup VerdictPCs
    BY <2>2 DEF JobPCs, VerdictPCs
  <2>6. /\ r.pc \in PassPCs => t \in locked
        /\ t \in locked => r.pc \in HolderPCs
        /\ r.pc \notin {"start", "mark"}
    BY <2>2 DEF PassPCs, HolderPCs
  <2> QED BY <2>1, <2>3, <2>4, <2>5, <2>6, WalkTo
<1> QED BY <1>1, <1>2 DEF FinishFailed

\* Thread t goes to another program point with the same job and list.
LEMMA StrideWalks ==
  ASSUME TypeOK, Admission, NEW t \in Threads, NEW r, th' = [th EXCEPT ![t] = r],
         UNCHANGED <<locked, launches, policy, crashes>>, RowsClose,
         r.job = th[t].job, r.todo = th[t].todo,
         r.pc \in {"kill", "commit", "notify", "stamp", "decide", "look", "probe"},
         th[t].pc \in (JobPCs \cup VerdictPCs) \ {"mark", "restamp"},
         t \in locked => r.pc \in HolderPCs
  PROVE  Walks(t)
<1>1. /\ row[r.job].state # "absent" /\ \A j \in r.todo : row[j].state # "absent"
      /\ t \in locked \/ r.job \notin r.todo
  BY Known
<1>2. th[t].pc \notin {"off", "lock", "sleep", "renotify", "restamp", "mark"}
  BY DEF JobPCs, VerdictPCs
<1>3. t = Recovery => \A j \in Jobs :
        (r.pc = "select" \/ (Recovery \notin locked
           /\ r.pc \notin {"off", "lock", "sleep", "renotify", "restamp"}
           /\ (r.job = j \/ j \in r.todo))) => Unvisited(j)
  BY <1>2 DEF Unvisited
<1>4. r.pc \notin PassPCs
  BY DEF PassPCs
<1> QED BY <1>1, <1>2, <1>3, <1>4, WalkTo

LEMMA FinishingWalks ==
  ASSUME TypeOK, Admission, NEW t \in Threads, Finishing(t)
  PROVE  Walks(t)
<1> USE DEF JobPCs, VerdictPCs, HolderPCs
<1> DEFINE j == th[t].job
<1>0. th[t] \in Thread
  BY DEF TypeOK
<1>1. ASSUME NEW pc \in {"cmark", "dmark"}, NEW hold \in {"cancelling", "displacing"},
             MarkHold(t, pc, hold)
      PROVE  Walks(t)
  <2> DEFINE r == [th[t] EXCEPT !.pc = "kill"]
  <2>1. r.pc = "kill" /\ r.job = th[t].job /\ r.todo = th[t].todo
    BY <1>0 DEF Thread
  <2>2. th' = [th EXCEPT ![t] = r] /\ UNCHANGED <<locked, launches, policy, crashes>>
    BY <1>1 DEF MarkHold, Goto, osVars, envVars
  <2> HIDE DEF r
  <2>3. j \in Jobs /\ row[j] \in Row
    BY <1>1, Known DEF MarkHold, TypeOK
  <2>4. RowsClose
    <3>1. row' = row \/ row' = [row EXCEPT ![j] = [row[j] EXCEPT !.hold = hold]]
      BY <1>1 DEF MarkHold
    <3>2. [row[j] EXCEPT !.hold = hold].state = row[j].state
      BY <2>3 DEF Row
    <3>3. \A i \in Jobs : row'[i].state = row[i].state
      BY <2>3, <3>1, <3>2 DEF TypeOK
    <3> QED BY <3>3 DEF RowsClose
  <2> QED BY <1>1, <2>1, <2>2, <2>4, StrideWalks DEF MarkHold
<1>2. CASE Terminate(t)
  <2> DEFINE next == IF OwnsChild(t) THEN "decide" ELSE "commit"
             r == [th[t] EXCEPT !.pc = next]
  <2>1. r.pc = next /\ r.job = th[t].job /\ r.todo = th[t].todo
    BY <1>0 DEF Thread
  <2>2. /\ th' = [th EXCEPT ![t] = r] /\ UNCHANGED <<locked, launches, policy, crashes>>
        /\ row' = row
    BY <1>2 DEF Terminate, Goto, osVars, envVars, dbVars
  <2> HIDE DEF r
  <2> QED BY <1>2, <2>1, <2>2, RowsSame, StrideWalks DEF Terminate, OwnsChild
<1>3. CASE Commit(t)
  <2>0. UNCHANGED <<launches, policy, crashes>> /\ th[t].pc = "commit"
    BY <1>3 DEF Commit, osVars, envVars
  <2>1. CASE IsTerminal(j)
    <3>1. row' = row /\ (Abort(t) \/ Resume(t))
      BY <1>3, <2>1 DEF Commit
    <3> QED BY <2>0, <3>1, RowsSame, ResumeWalks
  <2>2. CASE ~IsTerminal(j)
    <3> DEFINE r == [th[t] EXCEPT !.pc = "notify"]
               ended == [row[j] EXCEPT !.state = th[t].final, !.hold = "none",
                                       !.finished = NextRank(Finished, Jobs)]
    <3>1. r.pc = "notify" /\ r.job = th[t].job /\ r.todo = th[t].todo
      BY <1>0 DEF Thread
    <3>2. /\ th' = [th EXCEPT ![t] = r] /\ locked' = locked
          /\ row' = [row EXCEPT ![j] = ended]
      BY <1>3, <2>2 DEF Commit, Goto
    <3>3. j \in Jobs /\ row[j] \in Row /\ row[j].state # "absent" /\ th[t].final \in Terminal
      BY <1>0, <2>0, Known DEF TypeOK, Thread
    <3>4. ended.state = th[t].final
      BY <3>3 DEF Row
    <3> HIDE DEF r, ended
    <3>5. RowsClose
      BY <3>2, <3>3, <3>4 DEF RowsClose, TypeOK
    <3> QED BY <2>0, <3>1, <3>2, <3>5, StrideWalks
  <2> QED BY <2>1, <2>2
<1>4. CASE Notify(t)
  <2> DEFINE text == TextOf(j, th[t].final, th[t].seen)
             r == [th[t] EXCEPT !.pc = "stamp"]
  <2>0. UNCHANGED <<launches, policy, crashes>> /\ th[t].pc = "notify" /\ row' = row
    BY <1>4 DEF Notify, osVars, envVars
  <2>1. CASE Enqueued(j, text)
    <3>1. r.pc = "stamp" /\ r.job = th[t].job /\ r.todo = th[t].todo
      BY <1>0 DEF Thread
    <3>2. th' = [th EXCEPT ![t] = r] /\ locked' = locked
      BY <1>4, <2>1 DEF Notify, Goto
    <3> HIDE DEF r
    <3> QED BY <2>0, <3>1, <3>2, RowsSame, StrideWalks
  <2>2. CASE ~Enqueued(j, text)
    <3>1. FinishFailed(t)
      BY <1>4, <2>2 DEF Notify
    <3> QED BY <2>0, <3>1, RowsSame, ResumeWalks
  <2> QED BY <2>1, <2>2
<1>5. CASE Stamp(t)
  <2>0. UNCHANGED <<launches, policy, crashes>> /\ th[t].pc = "stamp" /\ Resume(t)
    BY <1>5 DEF Stamp, osVars, envVars
  <2>1. j \in Jobs /\ row[j] \in Row
    BY <2>0, Known DEF TypeOK
  <2>2. RowsClose
    <3>1. [row[j] EXCEPT !.notified = TRUE].state = row[j].state
      BY <2>1 DEF Row
    <3>2. row' = [row EXCEPT ![j] = [row[j] EXCEPT !.notified = TRUE]]
      BY <1>5 DEF Stamp
    <3> QED BY <2>1, <3>1, <3>2 DEF RowsClose, TypeOK
  <2> QED BY <2>0, <2>2, ResumeWalks
<1> QED BY <1>1, <1>2, <1>3, <1>4, <1>5 DEF Finishing, CancelMark, DisplaceMark

\* Thread t ends outside of the lock.
LEMMA OffWalks ==
  ASSUME TypeOK, Admission, NEW t \in Threads, th' = [th EXCEPT ![t] = Off],
         UNCHANGED <<dbVars, osVars, locked, envVars>>, t \notin locked, t # Recovery,
         th[t].pc \notin {"off", "mark"}
  PROVE  Walks(t)
<1>1. Off.pc = "off" /\ Off.todo = {}
  BY DEF Off, At
<1> QED BY <1>1, WalkTo, RowsSame
        DEF dbVars, osVars, envVars, PassPCs, HolderPCs, JobPCs, VerdictPCs

LEMMA WatchingWalks ==
  ASSUME TypeOK, Admission, NEW t \in Monitors, Watching(t)
  PROVE  Walks(t)
<1> USE DEF JobPCs, VerdictPCs, HolderPCs, PassPCs
<1>0. th[t] \in Thread /\ t \in Threads /\ t # Recovery
  BY ThreadNames DEF TypeOK, Monitors, Recovery
<1>1. /\ th[t].pc \in {"watch", "decide"} /\ t \notin locked
      /\ UNCHANGED <<dbVars, osVars, locked, envVars>>
  BY <1>0, Known DEF Watching, MonitorCancelled, MonitorExit, MonitorTimeout, MonitorDecide
<1>2. UNCHANGED <<locked, launches, policy, crashes>> /\ RowsClose
  BY <1>1, RowsSame DEF dbVars, osVars, envVars
<1>3. ASSUME NEW pc \in {"kill", "commit", "decide"}, NEW final, NEW seen,
             th' = [th EXCEPT ![t] = [th[t] EXCEPT !.pc = pc, !.final = final, !.seen = seen]]
      PROVE  Walks(t)
  <2> DEFINE r == [th[t] EXCEPT !.pc = pc, !.final = final, !.seen = seen]
  <2>1. r.pc = pc /\ r.job = th[t].job /\ r.todo = th[t].todo
    BY <1>0 DEF Thread
  <2>2. th' = [th EXCEPT ![t] = r]
    BY <1>3
  <2> HIDE DEF r
  <2> QED BY <1>0, <1>1, <1>2, <2>1, <2>2, StrideWalks
<1>4. ASSUME NEW pc \in {"kill", "decide"}, NEW final,
             th' = [th EXCEPT ![t] = [th[t] EXCEPT !.pc = pc, !.final = final]]
      PROVE  Walks(t)
  <2>1. [th[t] EXCEPT !.pc = pc, !.final = final]
          = [th[t] EXCEPT !.pc = pc, !.final = final, !.seen = th[t].seen]
    BY <1>0 DEF Thread
  <2> QED BY <1>3, <1>4, <2>1
<1>5. CASE MonitorCancelled(t)
  BY <1>0, <1>1, <1>5, OffWalks DEF MonitorCancelled
<1>6. CASE MonitorExit(t)
  <2> DEFINE verdict == IF Child(t).wrapper = "ok" THEN "succeeded" ELSE "failed"
  <2>1. th' = [th EXCEPT ![t] = [th[t] EXCEPT !.pc = "decide", !.final = verdict]]
    BY <1>6 DEF MonitorExit
  <2> HIDE DEF verdict
  <2> QED BY <1>4, <2>1
<1>7. CASE MonitorTimeout(t)
  <2>1. th' = [th EXCEPT ![t] = [th[t] EXCEPT !.pc = "kill", !.final = "timed_out"]]
    BY <1>7 DEF MonitorTimeout
  <2> QED BY <1>4, <2>1
<1>8. CASE MonitorDecide(t)
  <2> DEFINE r == row[th[t].job]
  <2>1. CASE r.state = "running"
    <3>1. th' = [th EXCEPT ![t] = [th[t] EXCEPT !.pc = "commit", !.seen = TRUE,
                                                !.final = ForcedState(r.hold, th[t].final)]]
      BY <1>8, <2>1 DEF MonitorDecide
    <3>2. [th[t] EXCEPT !.pc = "commit", !.seen = TRUE, !.final = ForcedState(r.hold, th[t].final)]
            = [th[t] EXCEPT !.pc = "commit", !.final = ForcedState(r.hold, th[t].final), !.seen = TRUE]
      BY <1>0 DEF Thread
    <3> QED BY <1>3, <3>1, <3>2
  <2>2. CASE r.state # "running"
    BY <1>0, <1>1, <1>8, <2>2, OffWalks DEF MonitorDecide
  <2> QED BY <2>1, <2>2
<1> QED BY <1>5, <1>6, <1>7, <1>8 DEF Watching

\* Looking and probing, except for the step in which recovery starts a poller
LEMMA PollingWalks ==
  ASSUME TypeOK, Admission, NEW t \in Pollers \cup {Recovery}, Polling(t),
         ProbeAlive(t) => t # Recovery
  PROVE  Walks(t)
<1> USE DEF JobPCs, VerdictPCs, HolderPCs, PassPCs
<1>0. th[t] \in Thread /\ t \in Threads
  BY ThreadNames DEF TypeOK
<1>1. /\ th[t].pc \in {"look", "probe"} /\ t \notin locked
      /\ UNCHANGED <<dbVars, osVars, locked, envVars>>
  BY <1>0, Known DEF Polling, Look, ProbeTimedOut, ProbeDead, ProbeAlive
<1>2. UNCHANGED <<locked, launches, policy, crashes>> /\ RowsClose
  BY <1>1, RowsSame DEF dbVars, osVars, envVars
<1>3. ASSUME NEW pc \in {"kill", "commit", "look", "probe"}, NEW final, NEW seen,
             th' = [th EXCEPT ![t] = [th[t] EXCEPT !.pc = pc, !.final = final, !.seen = seen]]
      PROVE  Walks(t)
  <2> DEFINE r == [th[t] EXCEPT !.pc = pc, !.final = final, !.seen = seen]
  <2>1. r.pc = pc /\ r.job = th[t].job /\ r.todo = th[t].todo
    BY <1>0 DEF Thread
  <2>2. th' = [th EXCEPT ![t] = r]
    BY <1>3
  <2> HIDE DEF r
  <2> QED BY <1>0, <1>1, <1>2, <2>1, <2>2, StrideWalks
<1>4. \A pc : [th[t] EXCEPT !.pc = pc]
                = [th[t] EXCEPT !.pc = pc, !.final = th[t].final, !.seen = th[t].seen]
  BY <1>0 DEF Thread
<1>5. ASSUME th' = [th EXCEPT ![t] = LookDone(t)] PROVE Walks(t)
  <2>1. CASE t = Recovery
    <3> DEFINE r == [At("each") EXCEPT !.todo = th[t].todo]
    <3>1. r.pc = "each" /\ r.todo = th[t].todo /\ r.job = NoJob
      BY DEF At
    <3>2. th' = [th EXCEPT ![t] = r]
      BY <1>5, <2>1 DEF LookDone
    <3> HIDE DEF r
    <3>3. \A j \in Jobs : j \in r.todo => Unvisited(j)
      BY <1>1, <2>1, <3>1 DEF Unvisited
    <3>4. (\A j \in r.todo : row[j].state # "absent") /\ r.job \notin r.todo
      BY <1>0, <3>1, Known, QueueAssumption
    <3> QED BY <1>0, <1>1, <1>2, <3>1, <3>2, <3>3, <3>4, WalkTo, QueueAssumption
  <2>2. CASE t # Recovery
    BY <1>0, <1>1, <1>5, <2>2, OffWalks DEF LookDone
  <2> QED BY <2>1, <2>2
<1>6. CASE Look(t)
  <2> DEFINE j == th[t].job
  <2>1. CASE row[j].state # "running"
    BY <1>5, <1>6, <2>1 DEF Look
  <2>2. CASE row[j].state = "running" /\ row[j].hold # "none"
    <3>1. th' = [th EXCEPT ![t] = [th[t] EXCEPT !.pc = "kill",
                                     !.final = ForcedState(row[j].hold, "none"), !.seen = TRUE]]
      BY <1>6, <2>2 DEF Look
    <3> QED BY <1>3, <3>1
  <2>3. CASE row[j].state = "running" /\ row[j].hold = "none" /\ receipt[j] # "none"
    <3>1. th' = [th EXCEPT ![t] = [th[t] EXCEPT !.pc = "commit",
                                     !.final = Receipt(j), !.seen = TRUE]]
      BY <1>6, <2>3 DEF Look
    <3> QED BY <1>3, <3>1
  <2>4. CASE row[j].state = "running" /\ row[j].hold = "none" /\ receipt[j] = "none"
    <3>1. th' = [th EXCEPT ![t] = [th[t] EXCEPT !.pc = "probe"]]
      BY <1>6, <2>4 DEF Look, Goto
    <3> QED BY <1>3, <1>4, <3>1
  <2> QED BY <2>1, <2>2, <2>3, <2>4
<1>7. CASE ProbeTimedOut(t)
  BY <1>3, <1>7 DEF ProbeTimedOut
<1>8. CASE ProbeDead(t)
  BY <1>3, <1>8 DEF ProbeDead
<1>9. CASE ProbeAlive(t)
  <2>1. th' = [th EXCEPT ![t] = [th[t] EXCEPT !.pc = "look"]]
    BY <1>9 DEF ProbeAlive
  <2> QED BY <1>3, <1>4, <2>1
<1> QED BY <1>6, <1>7, <1>8, <1>9 DEF Polling

LEMMA RecoveringWalks ==
  ASSUME TypeOK, Reports, Admission, Recovering(Recovery)
  PROVE  Walks(Recovery)
<1> USE DEF JobPCs, VerdictPCs, HolderPCs, PassPCs
<1> DEFINE t == Recovery
<1>0. th[t] \in Thread /\ t \in Threads /\ th[t].todo \subseteq Jobs
  BY ThreadNames, Known
<1>1. /\ th[t].pc \in {"select", "each", "sleep", "renotify", "restamp"} /\ t \notin locked
      /\ UNCHANGED <<locked, launches, policy, crashes>>
  BY <1>0, Known DEF Recovering, RecoverSelect, RecoverNext, RecoverDone, RetryTick, Renotify,
                     RenotifyDone, Restamp, osVars, envVars
<1>2. ASSUME NEW r, th' = [th EXCEPT ![t] = r], row' = row, r.todo = {},
             r.pc \in {"lock", "sleep"}
      PROVE  Walks(t)
  BY <1>0, <1>1, <1>2, WalkTo, RowsSame
<1>3. ASSUME NEW r, th' = [th EXCEPT ![t] = r], row' = row,
             \A j \in r.todo : row[j].state # "absent", r.job \notin r.todo,
             \/ r.pc = "renotify"
             \/ r.pc = "restamp" /\ row[r.job].state # "absent"
      PROVE  Walks(t)
  BY <1>0, <1>1, <1>3, WalkTo, RowsSame
<1>4. CASE RecoverSelect(t)
  <2> DEFINE r == [At("each") EXCEPT !.todo = AllRunning]
  <2>1. r.pc = "each" /\ r.todo = AllRunning /\ r.job = NoJob
    BY DEF At
  <2>2. th' = [th EXCEPT ![t] = r] /\ row' = row
    BY <1>4 DEF RecoverSelect, dbVars
  <2> HIDE DEF r
  <2>3. \A j \in Jobs : Unvisited(j)
    BY <1>4 DEF RecoverSelect, Unvisited
  <2>4. (\A j \in AllRunning : row[j].state # "absent") /\ NoJob \notin AllRunning
    BY QueueAssumption DEF AllRunning
  <2> QED BY <1>0, <1>1, <2>1, <2>2, <2>3, <2>4, WalkTo, RowsSame
<1>5. CASE RecoverNext(t)
  <2>1. PICK j \in Oldest(th[t].todo, Queued) :
          th' = [th EXCEPT ![t] = [AtJob("look", j) EXCEPT !.todo = th[t].todo \ {j}]]
    BY <1>5 DEF RecoverNext
  <2> DEFINE r == [AtJob("look", j) EXCEPT !.todo = th[t].todo \ {j}]
  <2>2. r.pc = "look" /\ r.todo = th[t].todo \ {j} /\ r.job = j
    BY DEF At, AtJob
  <2>3. th' = [th EXCEPT ![t] = r] /\ row' = row
    BY <1>5, <2>1 DEF RecoverNext, dbVars
  <2> HIDE DEF r
  <2>4. j \in th[t].todo
    BY DEF Oldest
  <2>5. \A i \in Jobs : r.job = i \/ i \in r.todo => Unvisited(i)
    BY <1>1, <1>5, <2>2, <2>4 DEF RecoverNext, Unvisited
  <2>6. row[j].state # "absent" /\ \A i \in r.todo : row[i].state # "absent"
    BY <1>0, <2>2, <2>4, Known
  <2> QED BY <1>0, <1>1, <2>2, <2>3, <2>5, <2>6, WalkTo, RowsSame
<1>6. CASE RecoverDone(t)
  <2>1. At("lock").pc = "lock" /\ At("lock").todo = {}
    BY DEF At
  <2> QED BY <1>2, <1>6, <2>1 DEF RecoverDone, dbVars
<1>7. CASE RetryTick(t)
  <2> DEFINE r == [At("renotify") EXCEPT !.todo = Unnotified]
  <2>1. r.pc = "renotify" /\ r.todo = Unnotified /\ r.job = NoJob
    BY DEF At
  <2>2. th' = [th EXCEPT ![t] = r] /\ row' = row
    BY <1>7 DEF RetryTick, dbVars
  <2> HIDE DEF r
  <2>3. (\A j \in Unnotified : row[j].state # "absent") /\ NoJob \notin Unnotified
    BY QueueAssumption DEF Unnotified, IsTerminal, Terminal
  <2> QED BY <1>3, <2>1, <2>2, <2>3
<1>8. CASE RenotifyDone(t)
  <2>1. At("sleep").pc = "sleep" /\ At("sleep").todo = {}
    BY DEF At
  <2> QED BY <1>2, <1>8, <2>1 DEF RenotifyDone, dbVars
<1>9. CASE Renotify(t)
  <2>1. PICK j \in Oldest(th[t].todo, Finished) :
          LET rest == th[t].todo \ {j}
          IN  \/ th' = [th EXCEPT ![t].todo = rest]
              \/ th' = [th EXCEPT ![t] = [AtJob("restamp", j) EXCEPT !.todo = rest]]
              \/ th' = [th EXCEPT ![t] = At("sleep")]
    BY <1>9 DEF Renotify
  <2> DEFINE rest == th[t].todo \ {j}
             stay == [th[t] EXCEPT !.todo = rest]
             mark == [AtJob("restamp", j) EXCEPT !.todo = rest]
  <2>2. /\ stay.pc = "renotify" /\ stay.todo = rest /\ stay.job = th[t].job
        /\ mark.pc = "restamp" /\ mark.todo = rest /\ mark.job = j
        /\ At("sleep").pc = "sleep" /\ At("sleep").todo = {}
    BY <1>0, <1>9 DEF At, AtJob, Thread, Renotify
  <2>3. row' = row /\ j \in th[t].todo
    BY <1>9 DEF Renotify, Oldest
  <2>4. /\ row[j].state # "absent" /\ \A i \in rest : row[i].state # "absent"
        /\ th[t].job \notin rest /\ j \notin rest
    BY <1>0, <1>1, <2>3, Known
  <2>5. \/ th' = [th EXCEPT ![t] = stay] \/ th' = [th EXCEPT ![t] = mark]
        \/ th' = [th EXCEPT ![t] = At("sleep")]
    BY <2>1
  <2> HIDE DEF rest, stay, mark
  <2> QED BY <1>2, <1>3, <2>2, <2>3, <2>4, <2>5
<1>10. CASE Restamp(t)
  <2> DEFINE j == th[t].job
             r == [At("renotify") EXCEPT !.todo = th[t].todo]
  <2>1. j \in Jobs /\ row[j] \in Row /\ \A i \in th[t].todo : row[i].state # "absent"
    BY <1>0, <1>10, Known DEF Restamp, TypeOK
  <2>2. r.pc = "renotify" /\ r.todo = th[t].todo /\ r.job = NoJob /\ NoJob \notin th[t].todo
    BY <1>0, QueueAssumption DEF At
  <2>3. th' = [th EXCEPT ![t] = r] /\ row' = [row EXCEPT ![j] = [row[j] EXCEPT !.notified = TRUE]]
    BY <1>10 DEF Restamp
  <2>4. [row[j] EXCEPT !.notified = TRUE].state = row[j].state
    BY <2>1 DEF Row
  <2>5. RowsClose
    BY <2>1, <2>3, <2>4 DEF RowsClose, TypeOK
  <2> HIDE DEF r
  <2> QED BY <1>0, <1>1, <2>1, <2>2, <2>3, <2>5, WalkTo
<1> QED BY <1>4, <1>5, <1>6, <1>7, <1>8, <1>9, <1>10 DEF Recovering

\* A thread of a pass goes on with the loop.
LEMMA LoopWalks ==
  ASSUME TypeOK, Admission, NEW t \in Threads, t \in locked, th[t].pc # "mark",
         th' = [th EXCEPT ![t] = [At("scan") EXCEPT !.retry = th[t].retry]],
         UNCHANGED <<dbVars, osVars, locked, envVars>>
  PROVE  Walks(t)
<1> DEFINE r == [At("scan") EXCEPT !.retry = th[t].retry]
<1>1. r.pc = "scan" /\ r.todo = {}
  BY DEF At
<1>2. th[t].pc # "off"
  BY Known DEF HolderPCs, PassPCs
<1> HIDE DEF r
<1>3. th' = [th EXCEPT ![t] = r]
  BY DEF r
<1> QED BY <1>1, <1>2, <1>3, WalkTo, RowsSame
        DEF dbVars, osVars, envVars, PassPCs, HolderPCs, JobPCs, VerdictPCs

\* A turn of the loop that chooses no job
LEMMA ScanWalks ==
  ASSUME TypeOK, Admission, NEW t \in Threads, Scan(t), ~PassChooses(t)
  PROVE  Walks(t)
<1>0. th[t] \in Thread /\ th[t].pc = "scan" /\ t \in locked
  BY Known DEF Scan, PassPCs
<1>1. row' = row /\ UNCHANGED <<launches, policy, crashes>> /\ RowsClose
  BY RowsSame DEF Scan, dbVars, osVars, envVars
<1>2. CASE PassHolds(t) \/ PassAtCapacity(t) \/ PassFindsNone(t)
  <2>1. \E retry \in BOOLEAN : EndPass(t, retry)
    BY <1>0, <1>2 DEF PassHolds, PassAtCapacity, PassFindsNone, Thread
  <2> QED BY <1>0, <1>1, <2>1, EndWalks
<1>3. CASE PassDisplaces(t)
  <2>1. PICK j \in Oldest(Running("background"), Started) :
          th' = [th EXCEPT ![t].pc = "dmark", ![t].job = j,
                   ![t].final = "displaced", ![t].seen = TRUE]
    BY <1>3 DEF PassDisplaces
  <2> DEFINE r == [th[t] EXCEPT !.pc = "dmark", !.job = j, !.final = "displaced", !.seen = TRUE]
  <2>2. r.pc = "dmark" /\ r.job = j /\ r.todo = th[t].todo
    BY <1>0 DEF Thread
  <2>3. th' = [th EXCEPT ![t] = r]
    BY <2>1
  <2> HIDE DEF r
  <2>4. row[j].state # "absent" /\ locked' = locked
    BY <1>3 DEF PassDisplaces, Oldest, Running
  <2>5. \A i \in r.todo : row[i].state # "absent"
    BY <2>2, Known
  <2> QED BY <1>0, <1>1, <2>2, <2>3, <2>4, <2>5, WalkTo DEF PassPCs, HolderPCs
<1> QED BY <1>2, <1>3 DEF Scan

\* The timer and cancel requests start with a thread that was not running.
LEMMA TimerWalks == ASSUME TypeOK, Admission, TimerFires PROVE Walks(Timer)
<1> USE DEF JobPCs, VerdictPCs, HolderPCs, PassPCs
<1>1. At("lock").pc = "lock" /\ At("lock").todo = {} /\ Timer # Recovery
  BY DEF At, Timer, Recovery
<1>2. Timer \notin locked
  BY ThreadNames, Known DEF TimerFires
<1> QED BY <1>1, <1>2, ThreadNames, WalkTo, RowsSame DEF TimerFires, dbVars, osVars, envVars

LEMMA CancelWalks ==
  ASSUME TypeOK, Admission, NEW j \in Jobs, CancelRead(j)
  PROVE  Walks(<<"cancel", j>>)
<1> USE DEF JobPCs, VerdictPCs, HolderPCs, PassPCs
<1> DEFINE t == <<"cancel", j>>
           live == row[j].state = "running"
           r == [AtJob(IF live THEN "cmark" ELSE "commit", j)
                   EXCEPT !.final = "cancelled", !.seen = live]
<1>1. r.pc \in {"cmark", "commit"} /\ r.job = j /\ r.todo = {}
  BY DEF At, AtJob
<1>2. t \in Threads /\ t # Recovery /\ t \in {"cancel"} \X Jobs
  BY ThreadNames DEF Recovery
<1>3. t \notin locked /\ row[j].state # "absent" /\ th[t].pc = "off"
  BY <1>2, Known DEF CancelRead
<1>4. th' = [th EXCEPT ![t] = r] /\ row' = row /\ UNCHANGED <<locked, launches, policy, crashes>>
  BY DEF CancelRead, dbVars, osVars, envVars
<1> HIDE DEF r, t
<1>5. Walks(t)
  BY <1>1, <1>2, <1>3, <1>4, WalkTo, RowsSame
<1> QED BY <1>5 DEF t

LEMMA FailureWalks ==
  ASSUME TypeOK, Admission, Failure, ~Crash
  PROVE  \E t \in Threads : Walks(t)
<1> USE DEF JobPCs, VerdictPCs, HolderPCs, PassPCs
<1>1. ASSUME NEW t \in Threads, NotifyFails(t) PROVE Walks(t)
  BY <1>1, ResumeWalks, RowsSame DEF NotifyFails, dbVars, osVars
<1>2. ASSUME NEW t \in Threads, NEW pc \in {"commit", "kill"},
             th[t].pc \in {"start", "watch"},
             th' = [th EXCEPT ![t].pc = pc, ![t].final = "failed"],
             UNCHANGED <<dbVars, osVars, locked, asleep, policy, crashes, cool>>
      PROVE  Walks(t)
  <2> DEFINE r == [th[t] EXCEPT !.pc = pc, !.final = "failed"]
  <2>0. th[t] \in Thread
    BY DEF TypeOK
  <2>1. r.pc = pc /\ r.job = th[t].job /\ r.todo = th[t].todo
    BY <2>0 DEF Thread
  <2>2. th' = [th EXCEPT ![t] = r]
    BY <1>2
  <2> HIDE DEF r
  <2> QED BY <1>2, <2>1, <2>2, StrideWalks, RowsSame DEF dbVars, osVars
<1>3. ASSUME NEW t \in Threads, StartFails(t) PROVE Walks(t)
  BY <1>2, <1>3 DEF StartFails
<1>4. ASSUME NEW t \in Threads, MonitorWaitFails(t) PROVE Walks(t)
  BY <1>2, <1>4 DEF MonitorWaitFails
<1>5. CASE RenotifyFails(Recovery)
  <2>1. At("sleep").pc = "sleep" /\ At("sleep").todo = {}
    BY DEF At
  <2>2. Recovery \notin locked
    BY <1>5, ThreadNames, Known DEF RenotifyFails
  <2>3. Walks(Recovery)
    BY <1>5, <2>1, <2>2, ThreadNames, WalkTo, RowsSame DEF RenotifyFails, dbVars, osVars
  <2> QED BY <2>3, ThreadNames
<1> QED BY <1>1, <1>3, <1>4, <1>5, ThreadNames DEF Failure

-----------------------------------------------------------------------------
(* Steps that admit, launch and spawn *)

LEMMA EnterKeeps ==
  ASSUME TypeOK, TypeOK', Admission, NEW t \in Threads, AdmitLock(t)
  PROVE  Admission'
<1>0. row' = row /\ UNCHANGED <<launches, policy, crashes>> /\ th[t].pc = "lock"
  BY DEF AdmitLock, dbVars, osVars, envVars
<1>1. CASE ~ServiceReserveHolds
  <2>1. Abort(t)
    BY <1>1 DEF AdmitLock
  <2>2. Walks(t)
    BY <1>0, <2>1, EndWalks, RowsSame
  <2> QED BY <2>2, WalkKeeps
<1>2. CASE ServiceReserveHolds
  <2>1. th' = [th EXCEPT ![t] = At("scan")] /\ locked' = {t} /\ locked = {}
    BY <1>2 DEF AdmitLock
  <2>2. th'[t] = At("scan") /\ Others(t)
    BY <2>1, OthersStay DEF Others
  <2>3. At("scan").pc = "scan" /\ At("scan").todo = {} /\ At("scan").job = NoJob
    BY DEF At
  <2>4. OneHolder'
    BY <2>1, <2>2, <2>3 DEF Admission, OneHolder, Others, PassPCs, HolderPCs
  <2>5. \A j \in Jobs : Unvisited(j)' => Unvisited(j)
    <3>1. CASE t = Recovery
      BY <2>1, <2>2, <2>3, <3>1 DEF Unvisited
    <3>2. CASE t # Recovery
      BY <2>1, <2>2, <3>2, ThreadNames DEF Unvisited, Others
    <3> QED BY <3>1, <3>2
  <2>6. \A u \in Threads : th[u].pc = "off" => th'[u] = th[u]
    BY <1>0, <2>2 DEF Others
  <2>7. SpawnedOnce'
    BY <1>0, <2>1, <2>2, <2>3, <2>5, <2>6, ThreadNames
       DEF Admission, SpawnedOnce, Others, JobPCs, VerdictPCs
  <2>8. LaunchedOnce'
    BY <1>0, <2>2 DEF Admission, LaunchedOnce, Others
  <2>9. \A j \in Jobs : RoomFor(j) => RoomFor(j)'
    BY <1>0, RoomStays, RowsSame
  <2>10. RoomHeld'
    <3> SUFFICES ASSUME NEW u \in Threads, th'[u].pc \in {"start", "mark"} PROVE RoomFor(th[u].job)'
      BY DEF RoomHeld
    <3>1. th'[u] = th[u] /\ th[u] \in Thread
      BY <2>2, <2>3 DEF Others, TypeOK
    <3>2. th[u].job \in Jobs /\ RoomFor(th[u].job)
      BY <3>1 DEF Admission, RoomHeld, JobPCs, Thread
    <3>3. RoomFor(th[u].job)' <=> \E j \in {th'[u].job} : RoomFor(j)'
      BY DEF RoomFor
    <3> QED BY <2>9, <3>1, <3>2, <3>3
  <2>11. PerfRunsAlone'
    BY <1>0, AloneStays, RowsSame DEF Admission
  <2> QED BY <2>4, <2>7, <2>8, <2>10, <2>11 DEF Admission
<1> QED BY <1>1, <1>2

\* A pass that goes on to start a job has found room for it.
LEMMA ChosenFits ==
  ASSUME TypeOK, NEW type \in Types, Admissible(type), ~PassHeld, ~Displaces, ~PassFull,
         NEW j \in Pending(type)
  PROVE  RoomFor(j) /\ row[j].state = "pending" /\ j \in Jobs
<1>1. j \in Jobs /\ row[j].state = "pending" /\ JobType[j] = type
  BY DEF Pending
<1>2. policy.max \in Nat /\ Cardinality(AllRunning) \in Nat
  <2>1. IsFiniteSet(AllRunning)
    BY QueueAssumption, FS_Subset DEF AllRunning
  <2> QED BY <2>1, FS_CardinalityType, QueueAssumption DEF TypeOK, Policy
<1>3. Cardinality(AllRunning) < policy.max /\ Cardinality(Running(type)) < policy.cap[type]
  BY <1>2 DEF PassFull, Admissible
<1>4. Running("perf") = {}
  BY DEF PassHeld
<1>5. type = "perf" => Running("tests") = {} /\ Running("background") = {}
  BY DEF Admissible, PassHeld, PerfWaiting, Displaces
<1> QED BY <1>1, <1>3, <1>4, <1>5 DEF RoomFor

LEMMA ChooseKeeps ==
  ASSUME TypeOK, TypeOK', Admission, NEW t \in Threads, Scan(t), PassChooses(t)
  PROVE  Admission'
<1>0. /\ th[t] \in Thread /\ th[t].pc = "scan" /\ t \in locked
      /\ row' = row /\ UNCHANGED <<locked, launches, policy, crashes>>
  BY Known DEF Scan, PassChooses, PassPCs, dbVars, osVars, envVars
<1> DEFINE retry == th[t].retry \/ SkipsCoolingPerf
<1>1. PICK type \in Types :
        /\ Admissible(type)
        /\ \E j \in Oldest(Pending(type), Queued) :
             th' = [th EXCEPT ![t].pc = "start", ![t].job = j, ![t].retry = retry]
  BY DEF PassChooses
<1>2. PICK j \in Oldest(Pending(type), Queued) :
        th' = [th EXCEPT ![t].pc = "start", ![t].job = j, ![t].retry = retry]
  BY <1>1
<1> DEFINE r == [th[t] EXCEPT !.pc = "start", !.job = j, !.retry = retry]
<1>3. r.pc = "start" /\ r.job = j /\ r.todo = th[t].todo
  BY <1>0 DEF Thread
<1>4. th' = [th EXCEPT ![t] = r]
  BY <1>2
<1> HIDE DEF r, retry
<1>5. th'[t] = r /\ Others(t)
  BY <1>4, OthersStay DEF Others
<1>6. RoomFor(j) /\ row[j].state = "pending" /\ j \in Jobs
  BY <1>1, ChosenFits DEF PassChooses, Oldest
<1>7. OneHolder'
  BY <1>0, <1>3, <1>5 DEF Admission, OneHolder, Others, PassPCs, HolderPCs
<1>8. SpawnedOnce'
  <2>1. t # <<"monitor", j>>
    BY <1>0, <1>6 DEF Admission, SpawnedOnce
  <2>2. \A i \in Jobs : Unvisited(i)' => Unvisited(i)
    <3>1. CASE t = Recovery
      BY <1>0, <3>1, <1>3, <1>5 DEF Unvisited
    <3>2. CASE t # Recovery
      BY <1>0, <1>5, <3>2, ThreadNames DEF Unvisited, Others
    <3> QED BY <3>1, <3>2
  <2>3. \A u \in Threads : th[u].pc = "off" => th'[u] = th[u]
    BY <1>0, <1>5 DEF Others
  <2>4. ASSUME NEW u \in Threads
        PROVE  /\ th'[u].pc \in JobPCs \cup VerdictPCs => row'[th'[u].job].state # "absent"
               /\ \A i \in th'[u].todo : row'[i].state # "absent"
               /\ u \in locked' \/ th'[u].job \notin th'[u].todo
               /\ th'[u].pc \in {"start", "mark"} => u # <<"monitor", th'[u].job>>
    <3>1. CASE u = t
      BY <1>0, <1>3, <1>5, <1>6, <2>1, <3>1, Known
    <3>2. CASE u # t
      BY <1>0, <1>5, <3>2 DEF Admission, SpawnedOnce, Others
    <3> QED BY <3>1, <3>2
  <2> QED BY <1>0, <2>2, <2>3, <2>4, ThreadNames DEF Admission, SpawnedOnce
<1>9. LaunchedOnce'
  BY <1>0, <1>5 DEF Admission, LaunchedOnce, Others
<1>10. \A i \in Jobs : RoomFor(i) => RoomFor(i)'
  BY <1>0, RoomStays, RowsSame
<1>11. RoomHeld'
  <2> SUFFICES ASSUME NEW u \in Threads, th'[u].pc \in {"start", "mark"} PROVE RoomFor(th[u].job)'
    BY DEF RoomHeld
  <2>1. RoomFor(th[u].job)' <=> \E i \in {th'[u].job} : RoomFor(i)'
    BY DEF RoomFor
  <2>2. CASE u = t
    BY <1>3, <1>5, <1>6, <1>10, <2>1, <2>2
  <2>3. CASE u # t
    <3>1. th'[u] = th[u] /\ th[u] \in Thread
      BY <1>5, <2>3 DEF Others, TypeOK
    <3>2. th[u].job \in Jobs /\ RoomFor(th[u].job)
      BY <3>1 DEF Admission, RoomHeld, JobPCs, Thread
    <3> QED BY <1>10, <2>1, <3>1, <3>2
  <2> QED BY <2>2, <2>3
<1>12. PerfRunsAlone'
  BY <1>0, AloneStays, RowsSame DEF Admission
<1> QED BY <1>7, <1>8, <1>9, <1>11, <1>12 DEF Admission

\* A launch: the holder of the lock found the row pending, so no other thread of
\* this server has launched the job.
LEMMA StartKeeps ==
  ASSUME TypeOK, TypeOK', Admission, NEW t \in Threads, Start(t)
  PROVE  Admission'
<1> DEFINE j == th[t].job
           r == [th[t] EXCEPT !.pc = "mark"]
<1>0. /\ th[t] \in Thread /\ th[t].pc = "start" /\ t \in locked /\ j \in Jobs
      /\ row' = row /\ UNCHANGED <<locked, policy, crashes>> /\ row[j].state = "pending"
      /\ launches' = [launches EXCEPT ![j] = launches[j] + 1]
  BY Known DEF Start, PassPCs, JobPCs, dbVars, envVars
<1>1. r.pc = "mark" /\ r.job = j /\ r.todo = th[t].todo
  BY <1>0 DEF Thread
<1>2. th' = [th EXCEPT ![t] = r]
  BY DEF Start, Goto
<1> HIDE DEF r
<1>3. th'[t] = r /\ Others(t)
  BY <1>2, OthersStay DEF Others
<1>4. /\ launches[j] \in Nat /\ crashes \in Nat
      /\ launches'[j] = launches[j] + 1 /\ \A i \in Jobs : i # j => launches'[i] = launches[i]
  BY <1>0, QueueAssumption DEF TypeOK
<1>5. launches[j] <= crashes
  <2> SUFFICES ASSUME launches[j] > crashes PROVE FALSE
    BY <1>4
  <2>1. PICK u \in Threads : th[u].pc = "mark" /\ th[u].job = j
    BY <1>0 DEF Admission, LaunchedOnce
  <2>2. u \in locked
    BY <2>1 DEF Admission, OneHolder, PassPCs
  <2> QED BY <1>0, <2>1, <2>2 DEF Admission, OneHolder
<1>6. OneHolder'
  BY <1>0, <1>1, <1>3 DEF Admission, OneHolder, Others, PassPCs, HolderPCs
<1>7. SpawnedOnce'
  <2>1. \A i \in Jobs : Unvisited(i)' => Unvisited(i)
    <3>1. CASE t = Recovery
      BY <1>0, <3>1, <1>1, <1>3 DEF Unvisited
    <3>2. CASE t # Recovery
      BY <1>0, <1>3, <3>2, ThreadNames DEF Unvisited, Others
    <3> QED BY <3>1, <3>2
  <2>2. \A u \in Threads : th[u].pc = "off" => th'[u] = th[u]
    BY <1>0, <1>3 DEF Others
  <2>3. ASSUME NEW u \in Threads
        PROVE  /\ th'[u].pc \in JobPCs \cup VerdictPCs => row'[th'[u].job].state # "absent"
               /\ \A i \in th'[u].todo : row'[i].state # "absent"
               /\ u \in locked' \/ th'[u].job \notin th'[u].todo
               /\ th'[u].pc \in {"start", "mark"} => u # <<"monitor", th'[u].job>>
    <3>1. CASE u = t
      BY <1>0, <1>1, <1>3, <3>1 DEF Admission, SpawnedOnce
    <3>2. CASE u # t
      BY <1>0, <1>3, <3>2 DEF Admission, SpawnedOnce, Others
    <3> QED BY <3>1, <3>2
  <2>4. \A i \in Jobs : row'[i].state = "absent" => launches'[i] = 0
    BY <1>0, <1>4 DEF Admission, SpawnedOnce
  <2> QED BY <1>0, <2>1, <2>2, <2>3, <2>4, ThreadNames DEF Admission, SpawnedOnce
<1>8. LaunchedOnce'
  <2> SUFFICES ASSUME NEW i \in Jobs
               PROVE  /\ launches'[i] <= crashes' + 1
                      /\ row'[i].state = "pending" /\ launches'[i] > crashes' =>
                           \E u \in Threads : th'[u].pc = "mark" /\ th'[u].job = i
    BY DEF LaunchedOnce
  <2>1. CASE i = j
    BY <1>0, <1>1, <1>3, <1>4, <1>5, <2>1
  <2>2. CASE i # j
    BY <1>0, <1>3, <1>4, <2>2 DEF Admission, LaunchedOnce, Others
  <2> QED BY <2>1, <2>2
<1>9. \A i \in Jobs : RoomFor(i) => RoomFor(i)'
  BY <1>0, RoomStays, RowsSame
<1>10. RoomHeld'
  <2> SUFFICES ASSUME NEW u \in Threads, th'[u].pc \in {"start", "mark"} PROVE RoomFor(th[u].job)'
    BY DEF RoomHeld
  <2>1. RoomFor(th[u].job)' <=> \E i \in {th'[u].job} : RoomFor(i)'
    BY DEF RoomFor
  <2>2. th'[u].job = th[u].job /\ th[u].pc \in {"start", "mark"} /\ th[u] \in Thread
    BY <1>0, <1>1, <1>3 DEF Others, TypeOK
  <2>3. th[u].job \in Jobs /\ RoomFor(th[u].job)
    BY <2>2 DEF Admission, RoomHeld, JobPCs, Thread
  <2> QED BY <1>9, <2>1, <2>2, <2>3
<1>11. PerfRunsAlone'
  BY <1>0, AloneStays, RowsSame DEF Admission
<1> QED BY <1>6, <1>7, <1>8, <1>10, <1>11 DEF Admission

\* What marking job j running does to the table
LEMMA MarkRows ==
  ASSUME TypeOK, Admission, NEW t \in Threads, Mark(t)
  PROVE  LET j == th[t].job
         IN  /\ j \in Jobs /\ row[j].state # "absent"
             /\ row[j].state = "pending" => row'[j].state = "running"
             /\ row[j].state # "pending" => row'[j].state = row[j].state
             /\ \A i \in Jobs : i # j => row'[i].state = row[i].state
<1> DEFINE j == th[t].job
           started == [row[j] EXCEPT !.state = "running", !.hold = "none", !.pg = launches[j],
                                     !.started = NextRank(Started, OfType(JobType[j]))]
<1>1. j \in Jobs /\ row[j].state # "absent" /\ row[j] \in Row
  BY Known DEF Mark, JobPCs, TypeOK
<1>2. started.state = "running"
  BY <1>1 DEF Row
<1>3. row' = IF row[j].state = "pending" THEN [row EXCEPT ![j] = started] ELSE row
  BY DEF Mark
<1> HIDE DEF started
<1> QED BY <1>1, <1>2, <1>3 DEF TypeOK

\* The job that is marked fits, for the global and the type's capacity.
LEMMA MarkFits ==
  ASSUME TypeOK, Admission, NEW t \in Threads, Mark(t), NEW j \in Jobs, j = th[t].job,
         row[j].state = "pending"
  PROVE  /\ Cardinality(AllRunning') <= policy.max
         /\ Cardinality(Running(JobType[j])') <= policy.cap[JobType[j]]
<1> DEFINE type == JobType[j]
<1>1. /\ j \in Jobs /\ row'[j].state = "running" /\ row[j].state # "running"
      /\ \A i \in Jobs : i # j => row'[i].state = row[i].state
  BY MarkRows
<1>2. RoomFor(j)
  BY DEF Mark, Admission, RoomHeld
<1>3. AllRunning' = AllRunning \cup {j} /\ Running(type)' = Running(type) \cup {j}
  BY <1>1 DEF AllRunning, Running
<1>4. IsFiniteSet(AllRunning) /\ IsFiniteSet(Running(type))
  BY QueueAssumption, FS_Subset DEF AllRunning, Running
<1>5. j \notin AllRunning /\ j \notin Running(type)
  BY <1>1 DEF AllRunning, Running
<1>6. Cardinality(AllRunning') = Cardinality(AllRunning) + 1 /\ Cardinality(AllRunning) \in Nat
  BY <1>3, <1>4, <1>5, FS_AddElement, FS_CardinalityType
<1>7. /\ Cardinality(Running(type)') = Cardinality(Running(type)) + 1
      /\ Cardinality(Running(type)) \in Nat
  BY <1>3, <1>4, <1>5, FS_AddElement, FS_CardinalityType
<1>8. policy.max \in Nat /\ policy.cap[type] \in Nat
  BY <1>1, QueueAssumption DEF TypeOK, Policy
<1> QED BY <1>2, <1>6, <1>7, <1>8 DEF RoomFor

LEMMA MarkKeeps ==
  ASSUME TypeOK, TypeOK', Admission, NEW t \in Threads, Mark(t)
  PROVE  Admission'
<1> DEFINE j == th[t].job
           m == <<"monitor", j>>
           r == [At("scan") EXCEPT !.retry = th[t].retry]
<1>0. /\ th[t] \in Thread /\ th[t].pc = "mark" /\ t \in locked /\ j \in Jobs
      /\ UNCHANGED <<locked, launches, policy, crashes>> /\ t # m /\ m \in Threads
  <2>1. /\ th[t] \in Thread /\ th[t].pc = "mark" /\ t \in locked /\ j \in Jobs
        /\ UNCHANGED <<locked, launches, policy, crashes>>
    BY Known DEF Mark, PassPCs, JobPCs, osVars, envVars
  <2>2. t # m
    BY <2>1 DEF Admission, SpawnedOnce
  <2> QED BY <2>1, <2>2, ThreadNames
<1>1. /\ r.pc = "scan" /\ r.todo = {}
      /\ AtJob("watch", j).pc = "watch" /\ AtJob("watch", j).todo = {} /\ AtJob("watch", j).job = j
  BY DEF At, AtJob
<1>2. th' = [th EXCEPT ![t] = r, ![m] = AtJob("watch", j)]
  BY DEF Mark
<1> HIDE DEF r
<1>3. /\ th'[t] = r /\ th'[m] = AtJob("watch", j)
      /\ \A u \in Threads : u # t /\ u # m => th'[u] = th[u]
  BY <1>0, <1>2 DEF TypeOK
<1> HIDE DEF m
<1>4. /\ row[j].state # "absent" /\ row'[j].state \notin {"absent", "pending"}
      /\ \A i \in Jobs : i # j => row'[i].state = row[i].state
  BY MarkRows DEF TypeOK, Row
<1>5. m \notin locked
  BY <1>0 DEF Admission, OneHolder
<1>6. OneHolder'
  BY <1>0, <1>1, <1>3, <1>5 DEF Admission, OneHolder, PassPCs, HolderPCs
<1>7. \A u \in Threads : u # t => th[u].pc \notin {"start", "mark"}
  BY <1>0 DEF Admission, OneHolder, PassPCs
<1>8. \A u \in Threads : th'[u].pc \notin {"start", "mark"}
  BY <1>1, <1>3, <1>7
<1>9. SpawnedOnce'
  <2>1. Recovery # m /\ \A i \in Jobs : <<"create", i>> # m /\ <<"poller", i>> # m
    BY DEF m, Recovery
  <2>2. \A i \in Jobs : i # j => <<"monitor", i>> # m
    BY DEF m
  <2>3. \A i \in Jobs : Unvisited(i)' => Unvisited(i)
    <3>1. CASE t = Recovery
      BY <1>0, <1>1, <1>3, <3>1 DEF Unvisited
    <3>2. CASE t # Recovery
      BY <1>0, <1>3, <2>1, <3>2, ThreadNames DEF Unvisited
    <3> QED BY <3>1, <3>2
  <2>4. \A u \in Threads : th[u].pc = "off" /\ u # m => th'[u] = th[u]
    BY <1>0, <1>3
  <2>5. \A i \in Jobs : row[i].state # "absent" => row'[i].state # "absent"
    BY <1>4
  <2>6. ASSUME NEW u \in Threads
        PROVE  /\ th'[u].pc \in JobPCs \cup VerdictPCs => row'[th'[u].job].state # "absent"
               /\ \A i \in th'[u].todo : row'[i].state # "absent"
               /\ u \in locked' \/ th'[u].job \notin th'[u].todo
    <3>1. CASE u = t
      BY <1>1, <1>3, <3>1 DEF JobPCs, VerdictPCs
    <3>2. CASE u = m
      BY <1>1, <1>3, <1>4, <3>2
    <3>3. CASE u # t /\ u # m
      BY <1>0, <1>3, <2>5, <3>3, Known
    <3> QED BY <3>1, <3>2, <3>3
  <2>7. ASSUME NEW i \in Jobs
        PROVE  /\ row'[i].state = "absent" => th'[<<"create", i>>].pc = "off" /\ launches'[i] = 0
               /\ row'[i].state \in {"absent", "pending"} => th'[<<"monitor", i>>].pc = "off"
               /\ Unvisited(i)' => th'[<<"poller", i>>].pc = "off"
    <3>1. row'[i].state \in {"absent", "pending"} => i # j /\ row'[i].state = row[i].state
      BY <1>4
    <3> QED BY <1>0, <2>1, <2>2, <2>3, <2>4, <3>1, ThreadNames DEF Admission, SpawnedOnce
  <2> QED BY <1>8, <2>6, <2>7 DEF SpawnedOnce
<1>10. LaunchedOnce'
  <2> SUFFICES ASSUME NEW i \in Jobs
               PROVE  /\ launches'[i] <= crashes' + 1
                      /\ row'[i].state = "pending" /\ launches'[i] > crashes' =>
                           \E u \in Threads : th'[u].pc = "mark" /\ th'[u].job = i
    BY DEF LaunchedOnce
  <2>1. launches'[i] <= crashes' + 1
    BY <1>0 DEF Admission, LaunchedOnce
  <2>2. CASE row'[i].state = "pending" /\ launches'[i] > crashes'
    <3>1. i # j /\ row[i].state = "pending" /\ launches[i] > crashes
      BY <1>0, <1>4, <2>2
    <3>2. PICK u \in Threads : th[u].pc = "mark" /\ th[u].job = i
      BY <3>1 DEF Admission, LaunchedOnce
    <3> QED BY <1>0, <1>7, <3>1, <3>2
  <2> QED BY <2>1, <2>2
<1>11. RoomHeld'
  BY <1>8 DEF RoomHeld
<1>12. PerfRunsAlone'
  <2>1. RoomFor(j)
    BY <1>0 DEF Admission, RoomHeld
  <2>2. \A type : Running(type)' \subseteq Running(type) \cup {i \in {j} : JobType[i] = type}
    BY <1>4 DEF Running
  <2> QED BY <2>1, <2>2 DEF RoomFor, PerfRunsAlone
<1> QED BY <1>6, <1>9, <1>10, <1>11, <1>12 DEF Admission

LEMMA CreateKeeps ==
  ASSUME TypeOK, TypeOK', Admission, NEW j \in Jobs, CreateJob(j)
  PROVE  Admission'
<1> DEFINE c == <<"create", j>>
           new == [row[j] EXCEPT !.state = "pending", !.queued = NextRank(Queued, Jobs)]
<1>0. /\ UNCHANGED <<locked, launches, policy, crashes>> /\ row[j].state = "absent"
      /\ th' = [th EXCEPT ![c] = At("lock")] /\ row' = [row EXCEPT ![j] = new]
      /\ c \in Threads /\ row[j] \in Row
  BY ThreadNames DEF CreateJob, osVars, envVars, TypeOK
<1>1. At("lock").pc = "lock" /\ At("lock").todo = {} /\ new.state = "pending"
  BY <1>0 DEF At, Row
<1> HIDE DEF new
<1>2. /\ th'[c] = At("lock") /\ Others(c)
      /\ row'[j].state = "pending" /\ \A i \in Jobs : i # j => row'[i].state = row[i].state
  BY <1>0, <1>1, OthersStay DEF Others, TypeOK
<1>3. th[c].pc = "off" /\ launches[j] = 0 /\ c \notin locked
  BY <1>0, Known DEF Admission, SpawnedOnce, PassPCs, HolderPCs
<1>4. Recovery # c /\ \A i \in Jobs : /\ <<"monitor", i>> # c /\ <<"poller", i>> # c
                                      /\ i # j => <<"create", i>> # c
  BY DEF Recovery
<1> HIDE DEF c
<1>5. OneHolder'
  BY <1>0, <1>1, <1>2, <1>3 DEF Admission, OneHolder, Others, PassPCs, HolderPCs
<1>6. \A u \in Threads : th'[u].pc \in {"start", "mark"} => th'[u] = th[u]
  BY <1>1, <1>2 DEF Others
<1>7. SpawnedOnce'
  <2>1. \A i \in Jobs : Unvisited(i)' => Unvisited(i)
    BY <1>0, <1>2, <1>4, ThreadNames DEF Unvisited, Others
  <2>2. ASSUME NEW u \in Threads
        PROVE  /\ th'[u].pc \in JobPCs \cup VerdictPCs => row'[th'[u].job].state # "absent"
               /\ \A i \in th'[u].todo : row'[i].state # "absent"
               /\ u \in locked' \/ th'[u].job \notin th'[u].todo
               /\ th'[u].pc \in {"start", "mark"} => u # <<"monitor", th'[u].job>>
    <3>1. CASE u = c
      BY <1>1, <1>2, <3>1 DEF JobPCs, VerdictPCs
    <3>2. CASE u # c
      BY <1>0, <1>2, <3>2, Known DEF Admission, SpawnedOnce, Others
    <3> QED BY <3>1, <3>2
  <2>3. ASSUME NEW i \in Jobs
        PROVE  /\ row'[i].state = "absent" => th'[<<"create", i>>].pc = "off" /\ launches'[i] = 0
               /\ row'[i].state \in {"absent", "pending"} => th'[<<"monitor", i>>].pc = "off"
               /\ Unvisited(i)' => th'[<<"poller", i>>].pc = "off"
    BY <1>0, <1>2, <1>4, <2>1, ThreadNames DEF Admission, SpawnedOnce, Others
  <2> QED BY <2>2, <2>3 DEF SpawnedOnce
<1>8. LaunchedOnce'
  <2> SUFFICES ASSUME NEW i \in Jobs
               PROVE  /\ launches'[i] <= crashes' + 1
                      /\ row'[i].state = "pending" /\ launches'[i] > crashes' =>
                           \E u \in Threads : th'[u].pc = "mark" /\ th'[u].job = i
    BY DEF LaunchedOnce
  <2>0. crashes \in Nat
    BY QueueAssumption DEF TypeOK
  <2>1. CASE i = j
    BY <1>0, <1>3, <2>0, <2>1
  <2>2. CASE i # j
    BY <1>0, <1>2, <1>3, <2>2 DEF Admission, LaunchedOnce, Others
  <2> QED BY <2>1, <2>2
<1>9. \A type : Running(type)' = Running(type)
  BY <1>0, <1>2 DEF Running
<1>10. AllRunning' = AllRunning
  BY <1>0, <1>2 DEF AllRunning
<1>11. RoomHeld'
  BY <1>0, <1>6, <1>9, <1>10 DEF Admission, RoomHeld, RoomFor
<1>12. PerfRunsAlone'
  BY <1>9 DEF Admission, PerfRunsAlone
<1> QED BY <1>5, <1>7, <1>8, <1>11, <1>12 DEF Admission

\* Recovery starts a poller for a job that it leaves behind.
LEMMA SpawnKeeps ==
  ASSUME TypeOK, TypeOK', Admission, ProbeAlive(Recovery)
  PROVE  Admission'
<1> DEFINE t == Recovery
           j == th[t].job
           p == <<"poller", j>>
           r == [At("each") EXCEPT !.todo = th[t].todo]
<1>0. /\ UNCHANGED <<locked, launches, policy, crashes>> /\ row' = row
      /\ t \in Threads /\ th[t] \in Thread /\ th[t].pc = "probe"
      /\ j \in Jobs /\ row[j].state # "absent" /\ p \in Threads /\ t # p /\ t \notin locked
      /\ \A i \in th[t].todo : row[i].state # "absent"
  <2>1. t \in Threads /\ th[t].pc = "probe" /\ row' = row
        /\ UNCHANGED <<locked, launches, policy, crashes>>
    BY ThreadNames DEF ProbeAlive, dbVars, osVars, envVars
  <2>2. th[t] \in Thread /\ j \in Jobs /\ row[j].state # "absent" /\ t \notin locked
        /\ \A i \in th[t].todo : row[i].state # "absent"
    BY <2>1, Known DEF JobPCs, HolderPCs, PassPCs
  <2>3. p \in Threads /\ t # p
    BY <2>2, ThreadNames DEF Recovery
  <2> QED BY <2>1, <2>2, <2>3
<1>1. /\ r.pc = "each" /\ r.todo = th[t].todo /\ r.job = NoJob
      /\ AtJob("look", j).pc = "look" /\ AtJob("look", j).todo = {} /\ AtJob("look", j).job = j
  BY DEF At, AtJob
<1>2. th' = [th EXCEPT ![t] = r, ![p] = AtJob("look", j)]
  BY DEF ProbeAlive, LookDone
<1> HIDE DEF r
<1>3. /\ th'[t] = r /\ th'[p] = AtJob("look", j)
      /\ \A u \in Threads : u # t /\ u # p => th'[u] = th[u]
  BY <1>0, <1>2 DEF TypeOK
<1>4. th[p].pc = "off" /\ p \notin locked
  <2>1. Unvisited(j)
    BY <1>0 DEF Unvisited
  <2> QED BY <1>0, <2>1, Known DEF Admission, SpawnedOnce, HolderPCs, PassPCs
<1>5. \A i \in Jobs : /\ <<"monitor", i>> # t /\ <<"create", i>> # t /\ <<"poller", i>> # t
                      /\ <<"monitor", i>> # p /\ <<"create", i>> # p
                      /\ i # j => <<"poller", i>> # p
  BY DEF Recovery
<1> HIDE DEF p
<1>6. OneHolder'
  BY <1>0, <1>1, <1>3, <1>4 DEF Admission, OneHolder, PassPCs, HolderPCs, TypeOK
<1>7. \A u \in Threads : th'[u].pc \in {"start", "mark"} => th'[u] = th[u]
  BY <1>1, <1>3
<1>8. SpawnedOnce'
  <2>1. ASSUME NEW i \in Jobs, Unvisited(i)' PROVE Unvisited(i) /\ i # j
    BY <1>0, <1>1, <1>3, <2>1, Known, QueueAssumption DEF Unvisited
  <2>2. ASSUME NEW u \in Threads
        PROVE  /\ th'[u].pc \in JobPCs \cup VerdictPCs => row'[th'[u].job].state # "absent"
               /\ \A i \in th'[u].todo : row'[i].state # "absent"
               /\ u \in locked' \/ th'[u].job \notin th'[u].todo
               /\ th'[u].pc \in {"start", "mark"} => u # <<"monitor", th'[u].job>>
    <3>1. CASE u = t
      BY <1>0, <1>1, <1>3, <3>1, Known, QueueAssumption DEF JobPCs, VerdictPCs
    <3>2. CASE u = p
      BY <1>0, <1>1, <1>3, <3>2
    <3>3. CASE u # t /\ u # p
      BY <1>0, <1>3, <3>3 DEF Admission, SpawnedOnce
    <3> QED BY <3>1, <3>2, <3>3
  <2>3. ASSUME NEW i \in Jobs
        PROVE  /\ row'[i].state = "absent" => th'[<<"create", i>>].pc = "off" /\ launches'[i] = 0
               /\ row'[i].state \in {"absent", "pending"} => th'[<<"monitor", i>>].pc = "off"
               /\ Unvisited(i)' => th'[<<"poller", i>>].pc = "off"
    BY <1>0, <1>3, <1>5, <2>1, ThreadNames DEF Admission, SpawnedOnce
  <2> QED BY <2>2, <2>3 DEF SpawnedOnce
<1>9. LaunchedOnce'
  BY <1>0, <1>3, <1>4 DEF Admission, LaunchedOnce
<1>10. AllRunning' = AllRunning /\ \A type : Running(type)' = Running(type)
  BY <1>0 DEF Running, AllRunning
<1>11. RoomHeld'
  BY <1>0, <1>7, <1>10 DEF Admission, RoomHeld, RoomFor
<1>12. PerfRunsAlone'
  BY <1>10 DEF Admission, PerfRunsAlone
<1> QED BY <1>6, <1>8, <1>9, <1>11, <1>12 DEF Admission

LEMMA CrashKeeps == ASSUME TypeOK, Admission, Crash PROVE Admission'
<1>0. /\ locked' = {} /\ row' = row /\ launches' = launches /\ crashes' = crashes + 1
      /\ th' = [t \in Threads |-> IF t = Recovery THEN At("select") ELSE Off]
  BY DEF Crash, dbVars, osVars
<1>1. /\ At("select").pc = "select" /\ At("select").todo = {} /\ At("select").job = NoJob
      /\ Off.pc = "off" /\ Off.todo = {} /\ Off.job = NoJob
  BY DEF Off, At
<1>2. \A u \in Threads : th'[u].pc \in {"off", "select"} /\ th'[u].todo = {}
  BY <1>0, <1>1
<1>3. \A j \in Jobs : /\ th'[<<"create", j>>].pc = "off" /\ th'[<<"monitor", j>>].pc = "off"
                      /\ th'[<<"poller", j>>].pc = "off"
  BY <1>0, <1>1, ThreadNames DEF Recovery
<1>4. OneHolder'
  BY <1>0, <1>2 DEF OneHolder, PassPCs
<1>5. SpawnedOnce'
  BY <1>0, <1>2, <1>3 DEF Admission, SpawnedOnce, JobPCs, VerdictPCs
<1>6. LaunchedOnce'
  BY <1>0, QueueAssumption DEF Admission, LaunchedOnce, TypeOK
<1>7. RoomHeld'
  BY <1>2 DEF RoomHeld
<1>8. PerfRunsAlone'
  BY <1>0, AloneStays, RowsSame DEF Admission
<1> QED BY <1>4, <1>5, <1>6, <1>7, <1>8 DEF Admission

\* Nothing that admission depends on changes.
Still == UNCHANGED <<row, th, locked, launches, policy, crashes>>

LEMMA StillKeeps == ASSUME Admission, Still PROVE Admission'
<1>1. \A type : Running(type)' = Running(type)
  BY DEF Still, Running
<1>2. AllRunning' = AllRunning /\ \A j \in Jobs : Unvisited(j)' <=> Unvisited(j)
  BY DEF Still, AllRunning, Unvisited
<1>3. OneHolder' /\ SpawnedOnce'
  BY <1>2 DEF Still, Admission, OneHolder, SpawnedOnce
<1>4. LaunchedOnce'
  BY DEF Still, Admission, LaunchedOnce
<1>5. RoomHeld' /\ PerfRunsAlone'
  BY <1>1, <1>2 DEF Still, Admission, RoomHeld, RoomFor, PerfRunsAlone
<1> QED BY <1>3, <1>4, <1>5 DEF Admission

LEMMA AdmissionInit == Init => Admission
<1> SUFFICES ASSUME Init PROVE Admission
  OBVIOUS
<1>1. \A t \in Threads : th[t].pc \in {"off", "sleep"} /\ th[t].todo = {}
  BY DEF Init, Off, At
<1>2. \A j \in Jobs : row[j].state = "absent"
  BY DEF Init, NoRow
<1>3. \A j \in Jobs : /\ th[<<"create", j>>].pc = "off" /\ th[<<"monitor", j>>].pc = "off"
                      /\ th[<<"poller", j>>].pc = "off"
  BY ThreadNames DEF Init, Recovery, Off, At
<1>4. OneHolder /\ SpawnedOnce
  BY <1>1, <1>3 DEF Init, OneHolder, SpawnedOnce, PassPCs, JobPCs, VerdictPCs
<1>5. LaunchedOnce /\ RoomHeld
  BY <1>1 DEF Init, LaunchedOnce, RoomHeld
<1>6. PerfRunsAlone
  BY <1>2 DEF PerfRunsAlone, Running
<1> QED BY <1>4, <1>5, <1>6 DEF Admission

\* Every step walks, or is one of the few that admit, launch and spawn.
LEMMA StepShape ==
  ASSUME Inv, Admission, [Next]_vars
  PROVE  \/ Still \/ Crash \/ ProbeAlive(Recovery)
         \/ \E j \in Jobs : CreateJob(j)
         \/ \E t \in Threads : \/ Walks(t) \/ AdmitLock(t) \/ Start(t) \/ Mark(t)
                               \/ Scan(t) /\ PassChooses(t)
<1>0. TypeOK /\ Reports
  BY DEF Inv
<1>1. CASE Environment
  BY <1>1 DEF Environment, WrapperExits, WrapperDies, GroupDrains, LogGrows,
              CooldownElapses, dbVars, osVars, srvVars, envVars, Still
<1>2. CASE Requests
  BY <1>0, <1>2, CancelWalks, ThreadNames DEF Requests
<1>3. CASE ServerStep
  <2>1. ASSUME NEW t \in Threads, StartStale(t) PROVE Walks(t)
    <3>1. t \in locked /\ th[t].pc = "start"
      BY <1>0, <2>1, Known DEF StartStale, PassPCs
    <3> QED BY <1>0, <2>1, <3>1, LoopWalks DEF StartStale
  <2> QED BY <1>0, <1>3, <2>1, ThreadNames, FinishingWalks, ScanWalks, WatchingWalks,
             PollingWalks, RecoveringWalks, TimerWalks DEF ServerStep, Admitting
<1>4. CASE Failure
  BY <1>0, <1>4, FailureWalks
<1>5. CASE UNCHANGED vars
  BY <1>5 DEF vars, Still
<1> QED BY <1>1, <1>2, <1>3, <1>4, <1>5 DEF Next

LEMMA AdmissionStep == Inv /\ Admission /\ [Next]_vars => Admission'
<1> SUFFICES ASSUME Inv, Admission, [Next]_vars PROVE Admission'
  OBVIOUS
<1>1. TypeOK /\ TypeOK'
  BY InvStep DEF Inv
<1> QED BY <1>1, StepShape, StillKeeps, CrashKeeps, SpawnKeeps, CreateKeeps, WalkKeeps,
           EnterKeeps, StartKeeps, MarkKeeps, ChooseKeeps

\* A job begins to run only where the holder of the lock marks it, and it fits.
LEMMA BeginsWithRoom ==
  ASSUME Inv, Admission, [Next]_vars, NEW j \in Jobs,
         row[j].state # "running", row'[j].state = "running"
  PROVE  /\ Cardinality(AllRunning') <= policy.max
         /\ Cardinality(Running(JobType[j])') <= policy.cap[JobType[j]]
<1>0. TypeOK
  BY DEF Inv
<1>1. ASSUME NEW t \in Threads, Walks(t) PROVE FALSE
  BY <1>1 DEF Walks, RowsClose, Terminal
<1>2. ASSUME NEW i \in Jobs, CreateJob(i) PROVE FALSE
  BY <1>0, <1>2 DEF CreateJob, TypeOK, Row
<1>3. ASSUME row' = row PROVE FALSE
  BY <1>3
<1>4. PICK t \in Threads : Mark(t)
  BY <1>1, <1>2, <1>3, StepShape
     DEF Still, Crash, ProbeAlive, AdmitLock, Start, Scan, dbVars
<1>5. j = th[t].job /\ row[j].state = "pending"
  BY <1>0, <1>4, MarkRows
<1> QED BY <1>0, <1>4, <1>5, MarkFits

-----------------------------------------------------------------------------
(* Theorems *)

\* A server start launches a job at most once, for any number of jobs and of passes
\* by request handlers, monitors, pollers, the timer and recovery.
THEOREM LaunchesAreSingle == Spec => []OneLaunchPerServer
<1>1. Admission => OneLaunchPerServer
  BY DEF Admission, LaunchedOnce, OneLaunchPerServer
<1> QED BY <1>1, InvInit, InvStep, AdmissionInit, AdmissionStep, PTL DEF Spec

\* A perf job never runs beside a tests or a background job, under any policy.
THEOREM PerfIsAlone == Spec => []PerfRunsAlone
<1>1. Admission => PerfRunsAlone
  BY DEF Admission
<1> QED BY <1>1, InvInit, InvStep, AdmissionInit, AdmissionStep, PTL DEF Spec

\* No admission exceeds the global or the type's capacity of the policy in force: the
\* numbers a pass reads stay upper bounds until it marks the job.
THEOREM CapacityKept == Spec => CapacityRespected
<1>1. Inv /\ Admission /\ [Next]_vars =>
        [\A j \in Jobs : (row[j].state # "running" /\ row'[j].state = "running") =>
           /\ Cardinality(AllRunning') <= policy.max
           /\ Cardinality(Running(JobType[j])') <= policy.cap[JobType[j]]]_vars
  BY BeginsWithRoom
<1> QED BY <1>1, InvInit, InvStep, AdmissionInit, AdmissionStep, PTL DEF Spec, CapacityRespected

-----------------------------------------------------------------------------
(* What becomes of the jobs *)


Step == Inv /\ Admission /\ [Next]_vars

-----------------------------------------------------------------------------
(* The inductive invariants *)

\* Thread t will see to job j: it watches the job or is about to end it, or it is
\* recovery and has the job on its list.
WatchedBy(t, j) ==
  /\ t \notin locked
  /\ \/ t = Recovery /\ th[t].pc = "select"
     \/ /\ th[t].pc \in {"watch", "look", "probe", "kill", "decide", "commit"}
        /\ th[t].job = j
     \/ /\ t = Recovery /\ j \in th[t].todo
        /\ th[t].pc \in {"each", "look", "probe", "kill", "commit", "notify", "stamp"}

Watchers(j) == {<<"monitor", j>>, <<"poller", j>>, Recovery}

\* A verdict is reported by the thread that committed it, so recovery never finds
\* another text in the mailbox.
OneReporter ==
  /\ \A t, u \in Threads :
       th[t].pc = "notify" /\ th[u].pc = "notify" /\ th[t].job = th[u].job => t = u
  /\ th[Recovery].pc = "notify" => msg[th[Recovery].job] = NoMsg

AllWatched ==
  faults = 0 => \A j \in AllRunning : \E t \in Watchers(j) : WatchedBy(t, j)

Begun(j) == row[j].state \notin {"absent", "pending"}

\* Threads whose verdicts wait for the process group
Judges(t) == t \in locked \/ t \notin Pollers \cup {Recovery}

\* What thread t knows about the process group of its job
KnowsGroup(t) ==
  LET j == th[t].job
  IN  /\ th[t].pc \in {"scan", "start"} => ~th[t].seen
      /\ th[t].pc = "mark" => launches[j] # 0
      /\ th[t].pc \in {"cmark", "dmark"} => Begun(j) /\ row[j].pg # 0
      /\ th[t].pc = "kill" /\ Judges(t) /\ ~OwnsChild(t) => Begun(j) /\ row[j].pg # 0
      /\ th[t].pc = "watch" \/ (th[t].pc = "kill" /\ OwnsChild(t)) => Begun(j) /\ launches[j] # 0
      /\ th[t].pc = "decide" =>
           Begun(j) /\ launches[j] # 0 /\ ~proc[j][launches[j]].group
      /\ th[t].pc = "commit" /\ Judges(t) /\ th[t].seen =>
           Begun(j) /\ row[j].pg # 0 /\ ~proc[j][row[j].pg].group

JobGroups(j) ==
  /\ row[j].state = "running" => row[j].pg # 0 /\ row[j].pg = launches[j]
  /\ row[j].pg <= launches[j]
  /\ \A k \in Launches : proc[j][k].wrapper = "run" => proc[j][k].group

GroupsKnown == (\A t \in Threads : KnowsGroup(t)) /\ (\A j \in Jobs : JobGroups(j))

-----------------------------------------------------------------------------
(* The ledger *)

\* A step that changes nothing a requester can see
Unseen ==
  /\ msg' = msg
  /\ \A j \in Jobs : row'[j].state = row[j].state /\ row'[j].notified = row[j].notified

LEMMA UnseenStutters == Unseen => UNCHANGED Ledger!ledger
BY DEF Unseen, Ledger!ledger

LEMMA SameTables == ASSUME UNCHANGED dbVars PROVE Unseen
BY DEF Unseen, dbVars

LEMMA MarkHoldUnseen ==
  ASSUME TypeOK, NEW t \in Threads, NEW pc \in {"cmark", "dmark"}, NEW hold, MarkHold(t, pc, hold)
  PROVE  Unseen
<1> DEFINE j == th[t].job
           held == [row[j] EXCEPT !.hold = hold]
<1>0. th[t] \in Thread
  BY DEF TypeOK
<1>1. j \in Jobs /\ row[j] \in Row
  BY <1>0 DEF MarkHold, Thread, VerdictPCs, JobPCs, TypeOK
<1>2. held.state = row[j].state /\ held.notified = row[j].notified
  BY <1>1 DEF Row
<1>3. msg' = msg /\ (row' = row \/ row' = [row EXCEPT ![j] = held])
  BY DEF MarkHold
<1> HIDE DEF held
<1> QED BY <1>1, <1>2, <1>3 DEF Unseen, TypeOK

LEMMA CreateSubmits ==
  ASSUME TypeOK, NEW j \in Jobs, CreateJob(j)
  PROVE  Ledger!Submit(j)
<1> DEFINE new == [row[j] EXCEPT !.state = "pending", !.queued = NextRank(Queued, Jobs)]
<1>1. row[j] \in Row /\ row[j].state = "absent" /\ msg' = msg /\ row' = [row EXCEPT ![j] = new]
  BY DEF CreateJob, TypeOK
<1>2. new.state = "pending" /\ new.notified = row[j].notified
  BY <1>1 DEF Row
<1> HIDE DEF new
<1>3. \A i \in Jobs : /\ row'[i].state = IF i = j THEN "pending" ELSE row[i].state
                      /\ row'[i].notified = row[i].notified
  BY <1>1, <1>2 DEF TypeOK
<1> QED BY <1>1, <1>3 DEF Ledger!Submit

LEMMA MarkBegins ==
  ASSUME TypeOK, NEW t \in Threads, Mark(t)
  PROVE  Unseen \/ \E j \in Jobs : Ledger!Begin(j)
<1>0. th[t] \in Thread
  BY DEF TypeOK
<1>1. PICK j \in Jobs : j = th[t].job
  BY <1>0 DEF Mark, JobPCs, Thread
<1> DEFINE started == [row[j] EXCEPT !.state = "running", !.hold = "none", !.pg = launches[j],
                                     !.started = NextRank(Started, OfType(JobType[j]))]
<1>2. row[j] \in Row /\ msg' = msg
  BY DEF Mark, TypeOK
<1>3. started.state = "running" /\ started.notified = row[j].notified
  BY <1>2 DEF Row
<1>4. row' = IF row[j].state = "pending" THEN [row EXCEPT ![j] = started] ELSE row
  BY <1>1 DEF Mark
<1> HIDE DEF started
<1>5. CASE row[j].state # "pending"
  BY <1>2, <1>4, <1>5 DEF Unseen
<1>6. CASE row[j].state = "pending"
  <2>1. \A i \in Jobs : /\ row'[i].state = IF i = j THEN "running" ELSE row[i].state
                        /\ row'[i].notified = row[i].notified
    BY <1>3, <1>4, <1>6 DEF TypeOK
  <2>2. Ledger!Begin(j)
    BY <1>2, <1>6, <2>1 DEF Ledger!Begin
  <2> QED BY <2>2
<1> QED BY <1>5, <1>6

LEMMA CommitDecides ==
  ASSUME TypeOK, Admission, NEW t \in Threads, Commit(t)
  PROVE  Unseen \/ \E j \in Jobs, v \in Terminal : Ledger!Decide(j, v)
<1>0. th[t] \in Thread
  BY DEF TypeOK
<1>4. PICK j \in Jobs, v \in Terminal : j = th[t].job /\ v = th[t].final
  BY <1>0 DEF Commit, VerdictPCs, Thread
<1> DEFINE ended == [row[j] EXCEPT !.state = v, !.hold = "none",
                                   !.finished = NextRank(Finished, Jobs)]
<1>1. row[j] \in Row /\ msg' = msg /\ row[j].state # "absent"
  BY <1>4, Known DEF Commit, VerdictPCs, TypeOK
<1>2. CASE IsTerminal(j)
  BY <1>1, <1>2, <1>4 DEF Commit, Unseen
<1>3. CASE ~IsTerminal(j)
  <2>1. row' = [row EXCEPT ![j] = ended]
    BY <1>3, <1>4 DEF Commit
  <2>2. ended.state = v /\ ended.notified = row[j].notified
    BY <1>1 DEF Row
  <2> HIDE DEF ended
  <2>3. \A i \in Jobs : /\ row'[i].state = IF i = j THEN v ELSE row[i].state
                        /\ row'[i].notified = row[i].notified
    BY <2>1, <2>2 DEF TypeOK
  <2>4. row[j].state \in {"pending", "running"}
    BY <1>1, <1>3 DEF IsTerminal, Row, States
  <2>5. Ledger!Decide(j, v)
    BY <1>1, <2>3, <2>4 DEF Ledger!Decide, Ledger!Unfinished
  <2> QED BY <2>5
<1> QED BY <1>2, <1>3

\* Queueing the text of a verdict reports it, unless a text is already there.
LEMMA EnqueueReports ==
  ASSUME TypeOK, row' = row, NEW j \in Jobs, NEW text \in Text, Enqueue(j, text),
         IsTerminal(j), text.state = row[j].state
  PROVE  Unseen \/ Ledger!Report(j)
<1>1. CASE msg[j] # NoMsg
  <2>1. msg' = msg
    BY <1>1 DEF Enqueue, TypeOK
  <2> QED BY <2>1 DEF Unseen
<1>2. CASE msg[j] = NoMsg
  <2>1. \A i \in Jobs : msg'[i] = IF i = j THEN text ELSE msg[i]
    BY <1>2 DEF Enqueue, TypeOK
  <2>2. msg[j].state = "none"
    BY <1>2 DEF NoMsg
  <2> QED BY <2>1, <2>2 DEF Ledger!Report, IsTerminal
<1> QED BY <1>1, <1>2

\* Setting completion_notified_at tells.
LEMMA StampTells ==
  ASSUME TypeOK, msg' = msg, NEW j \in Jobs, msg[j] # NoMsg,
         row' = [row EXCEPT ![j].notified = TRUE]
  PROVE  Ledger!Tell(j)
<1> DEFINE told == [row[j] EXCEPT !.notified = TRUE]
<1>1. told.state = row[j].state /\ told.notified = TRUE
  BY DEF TypeOK, Row
<1>2. row' = [row EXCEPT ![j] = told]
  OBVIOUS
<1> HIDE DEF told
<1>3. \A i \in Jobs : /\ row'[i].notified = IF i = j THEN TRUE ELSE row[i].notified
                      /\ row'[i].state = row[i].state
  BY <1>1, <1>2 DEF TypeOK
<1>4. msg[j].state # "none"
  BY DEF TypeOK, Text, Terminal
<1> QED BY <1>3, <1>4 DEF Ledger!Tell

\* Every step of the runner is a step of the ledger or none.
LEMMA LedgerStep == Step => [Ledger!LedgerNext]_(Ledger!ledger)
<1> SUFFICES ASSUME Step PROVE Unseen \/ Ledger!LedgerNext
  BY UnseenStutters
<1>0. TypeOK /\ Reports /\ Admission
  BY DEF Step, Inv
<1>1. ASSUME NEW t \in Threads, Finishing(t) PROVE Unseen \/ Ledger!LedgerNext
  <2>0. th[t] \in Thread
    BY <1>0 DEF TypeOK
  <2>1. CASE CancelMark(t) \/ DisplaceMark(t)
    BY <1>0, <2>1, MarkHoldUnseen DEF CancelMark, DisplaceMark
  <2>2. CASE Terminate(t)
    BY <2>2, SameTables DEF Terminate
  <2>3. CASE Commit(t)
    BY <1>0, <2>3, CommitDecides DEF Ledger!LedgerNext
  <2>4. CASE Notify(t)
    <3> DEFINE j == th[t].job
               text == TextOf(j, th[t].final, th[t].seen)
    <3>1. j \in Jobs /\ th[t].final \in Terminal /\ th[t].seen \in BOOLEAN
      BY <2>0, <2>4 DEF Notify, Thread, JobPCs, VerdictPCs
    <3>2. row[j].state = th[t].final
      BY <1>0, <2>4 DEF Notify, Reports
    <3>3. text \in Text /\ text.state = row[j].state /\ IsTerminal(j)
      BY <1>0, <3>1, <3>2 DEF TextOf, Text, TypeOK, IsTerminal
    <3>4. row' = row /\ Enqueue(j, text)
      BY <2>4 DEF Notify
    <3> HIDE DEF text
    <3> QED BY <1>0, <3>1, <3>3, <3>4, EnqueueReports DEF Ledger!LedgerNext
  <2>5. CASE Stamp(t)
    <3>1. th[t].job \in Jobs /\ msg[th[t].job] # NoMsg
      BY <1>0, <2>0, <2>5 DEF Stamp, Thread, JobPCs, VerdictPCs, Reports
    <3> QED BY <1>0, <2>5, <3>1, StampTells DEF Stamp, Ledger!LedgerNext
  <2> QED BY <1>1, <2>1, <2>2, <2>3, <2>4, <2>5 DEF Finishing
<1>2. CASE Recovering(Recovery)
  <2> DEFINE t == Recovery
  <2>0. t \in Threads /\ th[t] \in Thread /\ th[t].todo \subseteq Jobs
    BY <1>0, ThreadNames DEF TypeOK, Thread
  <2>1. CASE Renotify(t)
    <3>1. PICK j \in Oldest(th[t].todo, Finished) :
            msg' = msg \/ Enqueue(j, TextOf(j, row[j].state, row[j].started # 0))
      BY <2>1 DEF Renotify
    <3> DEFINE text == TextOf(j, row[j].state, row[j].started # 0)
    <3>2. j \in Jobs /\ IsTerminal(j) /\ row' = row
      BY <1>0, <2>0, <2>1 DEF Oldest, Renotify, Reports
    <3>3. text \in Text /\ text.state = row[j].state
      BY <1>0, <3>2 DEF TextOf, Text, TypeOK, IsTerminal
    <3>4. msg' = msg \/ Enqueue(j, text)
      BY <3>1
    <3> HIDE DEF text
    <3>5. CASE msg' = msg
      BY <3>2, <3>5 DEF Unseen
    <3>6. CASE Enqueue(j, text)
      BY <1>0, <3>2, <3>3, <3>6, EnqueueReports DEF Ledger!LedgerNext
    <3> QED BY <3>4, <3>5, <3>6
  <2>2. CASE Restamp(t)
    <3>1. th[t].job \in Jobs /\ msg[th[t].job] # NoMsg
      BY <1>0, <2>0, <2>2 DEF Restamp, Thread, JobPCs, VerdictPCs, Reports
    <3> QED BY <1>0, <2>2, <3>1, StampTells DEF Restamp, Ledger!LedgerNext
  <2>3. CASE RecoverSelect(t) \/ RecoverNext(t) \/ RecoverDone(t) \/ RetryTick(t) \/ RenotifyDone(t)
    BY <2>3, SameTables DEF RecoverSelect, RecoverNext, RecoverDone, RetryTick, RenotifyDone
  <2> QED BY <1>2, <2>1, <2>2, <2>3 DEF Recovering
<1>3. ASSUME NEW t \in Threads, Admitting(t) PROVE Unseen \/ Ledger!LedgerNext
  <2>1. CASE Mark(t)
    BY <1>0, <2>1, MarkBegins DEF Ledger!LedgerNext
  <2>2. CASE ~Mark(t)
    BY <1>3, <2>2, SameTables DEF Admitting, AdmitLock, Scan, StartStale, Start
  <2> QED BY <2>1, <2>2
<1>4. CASE Environment
  BY <1>4, SameTables DEF Environment, WrapperExits, WrapperDies, GroupDrains, LogGrows,
                          CooldownElapses
<1>5. CASE Requests
  <2>1. PICK j \in Jobs : CreateJob(j) \/ CancelRead(j)
    BY <1>5 DEF Requests
  <2>2. CASE CreateJob(j)
    BY <1>0, <2>2, CreateSubmits DEF Ledger!LedgerNext
  <2>3. CASE CancelRead(j)
    BY <2>3, SameTables DEF CancelRead
  <2> QED BY <2>1, <2>2, <2>3
<1>6. CASE ServerStep
  <2>1. ASSUME NEW t, Watching(t) \/ Polling(t) PROVE Unseen
    BY <2>1, SameTables DEF Watching, MonitorCancelled, MonitorExit, MonitorTimeout, MonitorDecide,
         Polling, Look, ProbeTimedOut, ProbeDead, ProbeAlive
  <2>2. CASE TimerFires
    BY <2>2, SameTables DEF TimerFires
  <2> QED BY <1>1, <1>2, <1>3, <1>6, <2>1, <2>2 DEF ServerStep
<1>7. CASE Failure
  BY <1>7, SameTables DEF Failure, NotifyFails, StartFails, MonitorWaitFails, RenotifyFails, Crash
<1>8. CASE UNCHANGED vars
  BY <1>8, SameTables DEF vars, dbVars
<1> QED BY <1>1, <1>3, <1>4, <1>5, <1>6, <1>7, <1>8 DEF Step, Next

LEMMA LedgerStarts == Init => Ledger!LedgerInit
BY DEF Init, Ledger!LedgerInit, NoRow, NoMsg

-----------------------------------------------------------------------------
(* One reporter *)

\* Nobody comes to "notify", and no message is queued.
LEMMA OrdinaryReporter == ASSUME OneReporter, Ordinary PROVE OneReporter'
<1>1. \A u \in Threads : th'[u].pc = "notify" => th'[u] = th[u]
  BY DEF Ordinary, Quiet, ReportPCs
<1> QED BY <1>1, ThreadNames DEF OneReporter, Ordinary

\* Thread t leaves "notify" or was not there; messages are queued for its job only.
LEMMA LeavesReporter ==
  ASSUME TypeOK, OneReporter, NEW t \in Threads, Others(t), th'[t].pc # "notify",
         th[t].pc # "notify" => msg' = msg,
         \A j \in Jobs : j # th[t].job => msg'[j] = msg[j]
  PROVE  OneReporter'
<1>1. \A u \in Threads : th'[u].pc = "notify" => u # t /\ th'[u] = th[u]
  BY DEF Others
<1>2. ASSUME th'[Recovery].pc = "notify" PROVE msg'[th'[Recovery].job] = NoMsg
  <2>1. Recovery # t /\ th'[Recovery] = th[Recovery] /\ th[Recovery].pc = "notify"
        /\ th[Recovery].job \in Jobs
    BY <1>1, <1>2, ThreadNames DEF TypeOK, Thread, VerdictPCs
  <2>2. msg[th[Recovery].job] = NoMsg
    BY <2>1 DEF OneReporter
  <2>3. CASE th[t].pc # "notify"
    BY <2>1, <2>2, <2>3
  <2>4. CASE th[t].pc = "notify"
    BY <2>1, <2>2, <2>4, ThreadNames DEF OneReporter
  <2> QED BY <2>3, <2>4
<1> QED BY <1>1, <1>2 DEF OneReporter

LEMMA CommitReporter ==
  ASSUME TypeOK, Reports, OneReporter, NEW t \in Threads, Commit(t)
  PROVE  OneReporter'
<1>0. th[t] \in Thread /\ th[t].pc = "commit" /\ msg' = msg
  BY DEF TypeOK, Commit
<1>1. th[t].job \in Jobs
  BY <1>0 DEF Thread, VerdictPCs
<1>2. CASE IsTerminal(th[t].job)
  <2>1. Abort(t) \/ Resume(t)
    BY <1>2 DEF Commit
  <2>2. th'[t].pc # "notify" /\ Others(t)
    BY <2>1, OthersStay DEF ReportPCs, Others
  <2> QED BY <1>0, <2>2, LeavesReporter
<1>3. CASE ~IsTerminal(th[t].job)
  <2> DEFINE r == [th[t] EXCEPT !.pc = "notify"]
  <2>1. th' = [th EXCEPT ![t] = r]
    BY <1>3 DEF Commit, Goto
  <2>2. r.pc = "notify" /\ r.job = th[t].job
    BY <1>0 DEF Thread
  <2> HIDE DEF r
  <2>3. th'[t].pc = "notify" /\ th'[t].job = th[t].job /\ \A u \in Threads : u # t => th'[u] = th[u]
    BY <2>1, <2>2, OthersStay
  <2>4. msg[th[t].job] = NoMsg
    BY <1>1, <1>3 DEF Reports, MessageMatchesRow
  <2>5. \A u \in Threads : th[u].pc = "notify" => th[u].job # th[t].job
    <3> SUFFICES ASSUME NEW u \in Threads, th[u].pc = "notify", th[u].job = th[t].job PROVE FALSE
      OBVIOUS
    <3>1. th[u].final \in Terminal /\ row[th[u].job].state = th[u].final
      BY DEF TypeOK, Thread, VerdictPCs, Reports
    <3> QED BY <1>3, <3>1 DEF IsTerminal
  <2> QED BY <1>0, <2>3, <2>4, <2>5, ThreadNames DEF OneReporter
<1> QED BY <1>2, <1>3

LEMMA NotifyReporter ==
  ASSUME TypeOK, OneReporter, NEW t \in Threads, Notify(t)
  PROVE  OneReporter'
<1>0. th[t] \in Thread /\ th[t].pc = "notify"
  BY DEF TypeOK, Notify
<1>1. th[t].job \in Jobs
  BY <1>0 DEF Thread, VerdictPCs
<1>2. \A j \in Jobs : j # th[t].job => msg'[j] = msg[j]
  BY <1>1 DEF Notify, Enqueue, TypeOK
<1>3. th' = [th EXCEPT ![t] = [th[t] EXCEPT !.pc = "stamp"]] \/ FinishFailed(t)
  BY DEF Notify, Goto
<1>4. [th[t] EXCEPT !.pc = "stamp"].pc = "stamp"
  BY <1>0 DEF Thread
<1>5. th'[t].pc # "notify" /\ Others(t)
  BY <1>3, <1>4, OthersStay DEF Others, ReportPCs
<1> QED BY <1>0, <1>2, <1>5, LeavesReporter

\* Recovery alone renotifies and restamps, and does not stand at "notify" then.
LEMMA RecoveringReporter ==
  ASSUME TypeOK, OneReporter, Recovering(Recovery)
  PROVE  OneReporter'
<1> DEFINE t == Recovery
<1>0. t \in Threads
  BY ThreadNames
<1>1. PICK r : th' = [th EXCEPT ![t] = r] /\ r.pc # "notify"
  <2>1. CASE Renotify(t)
    <3>1. PICK j \in Oldest(th[t].todo, Finished) :
             \/ th' = [th EXCEPT ![t].todo = th[t].todo \ {j}]
             \/ th' = [th EXCEPT ![t] = [AtJob("restamp", j) EXCEPT !.todo = th[t].todo \ {j}]]
             \/ th' = [th EXCEPT ![t] = At("sleep")]
      BY <2>1 DEF Renotify
    <3>2. /\ [th[t] EXCEPT !.todo = th[t].todo \ {j}].pc # "notify"
          /\ [AtJob("restamp", j) EXCEPT !.todo = th[t].todo \ {j}].pc # "notify"
          /\ At("sleep").pc # "notify"
      BY <1>0, <2>1 DEF Renotify, At, AtJob, TypeOK, Thread
    <3>3. th' = [th EXCEPT ![t].todo = th[t].todo \ {j}] =>
            th' = [th EXCEPT ![t] = [th[t] EXCEPT !.todo = th[t].todo \ {j}]]
      OBVIOUS
    <3> QED BY <3>1, <3>2, <3>3
  <2>2. CASE RecoverNext(t)
    <3>1. PICK j \in Oldest(th[t].todo, Queued) :
            th' = [th EXCEPT ![t] = [AtJob("look", j) EXCEPT !.todo = th[t].todo \ {j}]]
      BY <2>2 DEF RecoverNext
    <3>2. [AtJob("look", j) EXCEPT !.todo = th[t].todo \ {j}].pc # "notify"
      BY DEF At, AtJob
    <3> QED BY <3>1, <3>2
  <2>3. /\ \A pc : At(pc).pc = pc
        /\ \A pc, S : [At(pc) EXCEPT !.todo = S].pc = pc
    BY DEF At
  <2>4. CASE RecoverSelect(t) \/ RetryTick(t) \/ Restamp(t)
    <3>1. PICK pc, S : /\ pc \in {"each", "renotify"}
                       /\ th' = [th EXCEPT ![t] = [At(pc) EXCEPT !.todo = S]]
      BY <2>4 DEF RecoverSelect, RetryTick, Restamp
    <3> DEFINE r == [At(pc) EXCEPT !.todo = S]
    <3>2. th' = [th EXCEPT ![t] = r] /\ r.pc # "notify"
      BY <2>3, <3>1
    <3> QED BY <3>2
  <2>5. CASE RecoverDone(t) \/ RenotifyDone(t)
    <3>1. PICK pc \in {"lock", "sleep"} : th' = [th EXCEPT ![t] = At(pc)]
      BY <2>5 DEF RecoverDone, RenotifyDone
    <3> QED BY <2>3, <3>1
  <2> QED BY <2>1, <2>2, <2>4, <2>5 DEF Recovering
<1>2. th[t].pc # "notify"
  BY DEF Recovering, RecoverSelect, RecoverNext, RecoverDone, RetryTick, RenotifyDone, Renotify,
         Restamp
<1>3. th'[t].pc # "notify" /\ \A u \in Threads : u # t => th'[u] = th[u]
  BY <1>0, <1>1, OthersStay
<1> QED BY <1>0, <1>2, <1>3 DEF OneReporter

LEMMA ReporterStep == Step /\ OneReporter => OneReporter'
<1> SUFFICES ASSUME Step, OneReporter PROVE OneReporter'
  OBVIOUS
<1>0. TypeOK /\ Reports
  BY DEF Step, Inv
<1>1. ASSUME NEW t \in Threads, Finishing(t) PROVE OneReporter'
  <2>1. CASE CancelMark(t) \/ DisplaceMark(t)
    BY <1>0, <2>1, MarkHoldOrdinary, OrdinaryReporter DEF CancelMark, DisplaceMark
  <2>2. CASE Terminate(t)
    <3> DEFINE r == [th[t] EXCEPT !.pc = IF OwnsChild(t) THEN "decide" ELSE "commit"]
    <3>1. th' = [th EXCEPT ![t] = r] /\ msg' = msg
      BY <2>2 DEF Terminate, Goto, dbVars
    <3>2. r.pc # "notify"
      BY <1>0 DEF TypeOK, Thread
    <3> HIDE DEF r
    <3>3. th'[t].pc # "notify" /\ Others(t)
      BY <1>0, <3>1, <3>2, OthersStay DEF Others
    <3> QED BY <1>0, <2>2, <3>1, <3>3, LeavesReporter DEF Terminate
  <2>3. CASE Commit(t)
    BY <1>0, <2>3, CommitReporter
  <2>4. CASE Notify(t)
    BY <1>0, <2>4, NotifyReporter
  <2>5. CASE Stamp(t)
    <3>1. th'[t].pc # "notify" /\ Others(t) /\ msg' = msg
      BY <1>0, <2>5, OthersStay DEF Others, ReportPCs, Stamp
    <3> QED BY <1>0, <2>5, <3>1, LeavesReporter DEF Stamp
  <2> QED BY <1>1, <2>1, <2>2, <2>3, <2>4, <2>5 DEF Finishing
<1>2. CASE ServerStep
  <2>1. CASE TimerFires
    BY <1>0, <2>1, SameRows, QuietMove, ThreadNames, OrdinaryReporter
       DEF TimerFires, dbVars, At, ReportPCs
  <2> QED BY <1>0, <1>1, <1>2, <2>1, RecoveringReporter, AdmittingOrdinary, WatchingOrdinary,
             PollingOrdinary, OrdinaryReporter, ThreadNames DEF ServerStep
<1>3. CASE UNCHANGED vars
  BY <1>3 DEF vars, OneReporter
<1> QED BY <1>0, <1>2, <1>3, EnvironmentOrdinary, RequestsOrdinary, FailureOrdinary,
           OrdinaryReporter DEF Step, Next

-----------------------------------------------------------------------------
(* Every running job is watched *)

\* Points at which a thread can be responsible for a running job
WatchPCs == {"select", "each", "watch", "look", "probe", "kill", "decide", "commit", "notify", "stamp"}

\* Thread t keeps the running jobs it is responsible for.
StaysOn(t) ==
  \A j \in Jobs : WatchedBy(t, j) /\ row'[j].state = "running" => WatchedBy(t, j)'

LEMMA WatchKept ==
  ASSUME AllWatched, NEW t \in Threads, Others(t), AllRunning' \subseteq AllRunning,
         locked' \subseteq locked \cup {t}, faults' = faults, StaysOn(t)
  PROVE  AllWatched'
<1> SUFFICES ASSUME faults = 0, NEW j \in AllRunning'
             PROVE  \E u \in Watchers(j) : WatchedBy(u, j)'
  BY DEF AllWatched, Watchers, Recovery
<1>1. j \in Jobs /\ j \in AllRunning /\ row'[j].state = "running"
  BY DEF AllRunning
<1>2. PICK u \in Watchers(j) : WatchedBy(u, j)
  BY <1>1 DEF AllWatched
<1>3. u \in Threads
  BY <1>1, ThreadNames DEF Watchers
<1>4. CASE u = t
  BY <1>1, <1>2, <1>4 DEF StaysOn
<1>5. CASE u # t
  <2>1. th'[u] = th[u] /\ u \notin locked'
    BY <1>2, <1>3, <1>5 DEF Others, WatchedBy
  <2> QED BY <1>2, <2>1 DEF WatchedBy
<1> QED BY <1>4, <1>5

LEMMA WalkKeepsWatch ==
  ASSUME AllWatched, NEW t \in Threads, Walks(t), faults' = faults, StaysOn(t)
  PROVE  AllWatched'
<1>1. AllRunning' \subseteq AllRunning
  BY DEF Walks, RowsClose, AllRunning, Terminal
<1> QED BY <1>1, WatchKept DEF Walks

\* A thread that was not responsible for anything
LEMMA IdleStays ==
  ASSUME NEW t \in Threads, t \in locked \/ th[t].pc \notin WatchPCs
  PROVE  StaysOn(t)
BY DEF StaysOn, WatchedBy, WatchPCs

\* A thread that goes on with its job
LEMMA StrideStays ==
  ASSUME NEW t \in Threads, locked' = locked,
         th[t].pc \in {"watch", "look", "probe", "kill", "decide"},
         th'[t].job = th[t].job, th'[t].todo = th[t].todo,
         th'[t].pc \in {"kill", "commit", "look", "probe"} \/ (t # Recovery /\ th'[t].pc = "decide")
  PROVE  StaysOn(t)
BY DEF StaysOn, WatchedBy

\* A thread that is done with its job; recovery keeps its list.
LEMMA DoneStays ==
  ASSUME NEW t \in Threads, th[t].pc # "select",
         th[t].pc \in {"notify", "stamp"} \/ row'[th[t].job].state # "running",
         t = Recovery /\ t \notin locked =>
           /\ t \notin locked' /\ th'[t].todo = th[t].todo
           /\ th'[t].pc \in {"each", "notify", "stamp"}
  PROVE  StaysOn(t)
BY DEF StaysOn, WatchedBy

LEMMA AfterFinishIs ==
  ASSUME NEW t \in Threads, t \notin locked
  PROVE  t = Recovery => AfterFinish(t).pc = "each" /\ AfterFinish(t).todo = th[t].todo
BY DEF AfterFinish, At

LEMMA FinishingStays ==
  ASSUME TypeOK, Reports, OneReporter, NEW t \in Threads, Finishing(t)
  PROVE  StaysOn(t)
<1>0. th[t] \in Thread
  BY DEF TypeOK
<1>1. CASE CancelMark(t) \/ DisplaceMark(t)
  BY <1>1, IdleStays DEF CancelMark, DisplaceMark, MarkHold, WatchPCs
<1>2. CASE Terminate(t)
  <2> DEFINE next == IF OwnsChild(t) THEN "decide" ELSE "commit"
             r == [th[t] EXCEPT !.pc = next]
  <2>1. r.pc = next /\ r.job = th[t].job /\ r.todo = th[t].todo
    BY <1>0 DEF Thread
  <2>2. th' = [th EXCEPT ![t] = r]
    BY <1>2 DEF Terminate, Goto
  <2> HIDE DEF r
  <2>3. th'[t] = r /\ locked' = locked /\ th[t].pc = "kill"
    BY <1>2, <2>2, OthersStay DEF Terminate
  <2>4. OwnsChild(t) => t # Recovery
    BY DEF OwnsChild, Recovery
  <2>5. th'[t].pc = "commit" \/ (t # Recovery /\ th'[t].pc = "decide")
    <3>1. CASE OwnsChild(t)
      BY <2>1, <2>3, <2>4, <3>1
    <3>2. CASE ~OwnsChild(t)
      BY <2>1, <2>3, <3>2 DEF OwnsChild
    <3> QED BY <3>1, <3>2
  <2> QED BY <2>1, <2>3, <2>5, StrideStays
<1>3. CASE Commit(t)
  <2>0. th[t].job \in Jobs /\ th[t].final \in Terminal /\ th[t].pc = "commit"
    BY <1>0, <1>3 DEF Commit, Thread, VerdictPCs
  <2>1. CASE t \in locked
    BY <2>1, IdleStays
  <2>2. CASE t \notin locked /\ IsTerminal(th[t].job)
    <3>1. th' = [th EXCEPT ![t] = AfterFinish(t)] /\ locked' = locked /\ row' = row
      BY <1>3, <2>2 DEF Commit, Resume
    <3>2. th'[t] = AfterFinish(t)
      BY <3>1, OthersStay
    <3>3. row'[th[t].job].state # "running"
      BY <2>2, <3>1 DEF IsTerminal, Terminal
    <3> QED BY <2>0, <2>2, <3>1, <3>2, <3>3, AfterFinishIs, DoneStays
  <2>3. CASE t \notin locked /\ ~IsTerminal(th[t].job)
    <3> DEFINE r == [th[t] EXCEPT !.pc = "notify"]
               j == th[t].job
               ended == [row[j] EXCEPT !.state = th[t].final, !.hold = "none",
                                       !.finished = NextRank(Finished, Jobs)]
    <3>1. r.pc = "notify" /\ r.job = th[t].job /\ r.todo = th[t].todo
      BY <1>0 DEF Thread
    <3>2. th' = [th EXCEPT ![t] = r] /\ locked' = locked /\ row' = [row EXCEPT ![j] = ended]
      BY <1>3, <2>3 DEF Commit, Goto
    <3>3. ended.state = th[t].final
      BY <2>0 DEF TypeOK, Row
    <3> HIDE DEF r, ended
    <3>4. row'[j].state # "running"
      BY <2>0, <3>2, <3>3 DEF TypeOK, Terminal
    <3>5. th'[t] = r
      BY <3>2, OthersStay
    <3> QED BY <2>0, <2>3, <3>1, <3>2, <3>4, <3>5, DoneStays
  <2> QED BY <2>1, <2>2, <2>3
<1>4. CASE Notify(t)
  <2> DEFINE text == TextOf(th[t].job, th[t].final, th[t].seen)
             r == [th[t] EXCEPT !.pc = "stamp"]
  <2>1. CASE t # Recovery \/ t \in locked
    BY <1>4, <2>1, DoneStays DEF Notify
  <2>2. CASE t = Recovery /\ t \notin locked
    <3>1. Enqueued(th[t].job, text)
      BY <1>4, <2>2 DEF Notify, OneReporter, Enqueued
    <3>2. th' = [th EXCEPT ![t] = r] /\ locked' = locked
      BY <1>4, <3>1 DEF Notify, Goto
    <3>3. r.pc = "stamp" /\ r.todo = th[t].todo
      BY <1>0 DEF Thread
    <3> HIDE DEF r
    <3>4. th'[t] = r
      BY <3>2, OthersStay
    <3> QED BY <1>4, <2>2, <3>2, <3>3, <3>4, DoneStays DEF Notify
  <2> QED BY <2>1, <2>2
<1>5. CASE Stamp(t)
  <2>1. CASE t # Recovery \/ t \in locked
    BY <1>5, <2>1, DoneStays DEF Stamp
  <2>2. CASE t = Recovery /\ t \notin locked
    <3>1. th' = [th EXCEPT ![t] = AfterFinish(t)] /\ locked' = locked /\ th[t].pc = "stamp"
      BY <1>5 DEF Stamp, Resume
    <3>2. th'[t] = AfterFinish(t)
      BY <3>1, OthersStay
    <3> QED BY <2>2, <3>1, <3>2, AfterFinishIs, DoneStays
  <2> QED BY <2>1, <2>2
<1> QED BY <1>1, <1>2, <1>3, <1>4, <1>5 DEF Finishing

LEMMA WatchingStays ==
  ASSUME TypeOK, Admission, NEW t \in Monitors, Watching(t)
  PROVE  StaysOn(t)
<1>0. th[t] \in Thread /\ t \in Threads /\ t # Recovery
  BY ThreadNames DEF TypeOK, Monitors, Recovery
<1>1. ASSUME NEW r, th' = [th EXCEPT ![t] = r], locked' = locked, th[t].pc \in {"watch", "decide"},
             r.pc \in {"kill", "decide", "commit"}, r.job = th[t].job, r.todo = th[t].todo
      PROVE  StaysOn(t)
  <2>1. th'[t] = r
    BY <1>0, <1>1, OthersStay
  <2>2. /\ th[t].pc \in {"watch", "look", "probe", "kill", "decide"}
        /\ th'[t].job = th[t].job /\ th'[t].todo = th[t].todo
        /\ th'[t].pc \in {"kill", "commit", "look", "probe"} \/ (t # Recovery /\ th'[t].pc = "decide")
    BY <1>0, <1>1, <2>1
  <2> QED BY <1>0, <1>1, <2>2, StrideStays
<1>2. ASSUME th[t].pc \in {"watch", "decide"}, row' = row, row[th[t].job].state # "running"
      PROVE  StaysOn(t)
  BY <1>0, <1>2, DoneStays
<1>3. CASE MonitorCancelled(t)
  BY <1>2, <1>3 DEF MonitorCancelled, dbVars
<1>4. ASSUME NEW pc \in {"decide", "kill"}, NEW final, locked' = locked, th[t].pc = "watch",
             th' = [th EXCEPT ![t] = [th[t] EXCEPT !.pc = pc, !.final = final]]
      PROVE  StaysOn(t)
  <2> DEFINE r == [th[t] EXCEPT !.pc = pc, !.final = final]
  <2>1. r.pc = pc /\ r.job = th[t].job /\ r.todo = th[t].todo
    BY <1>0 DEF Thread
  <2>2. th' = [th EXCEPT ![t] = r]
    BY <1>4
  <2> HIDE DEF r
  <2>3. r.pc \in {"kill", "decide", "commit"}
    BY <2>1
  <2> QED BY <1>1, <1>4, <2>1, <2>2, <2>3
<1>5. CASE MonitorDecide(t)
  <2>1. CASE row[th[t].job].state # "running"
    BY <1>2, <1>5, <2>1 DEF MonitorDecide, dbVars
  <2>2. CASE row[th[t].job].state = "running"
    <3> DEFINE final == ForcedState(row[th[t].job].hold, th[t].final)
               r == [th[t] EXCEPT !.pc = "commit", !.seen = TRUE, !.final = final]
    <3>1. r.pc = "commit" /\ r.job = th[t].job /\ r.todo = th[t].todo
      BY <1>0 DEF Thread
    <3>2. th' = [th EXCEPT ![t] = r] /\ locked' = locked /\ th[t].pc = "decide"
      BY <1>5, <2>2 DEF MonitorDecide
    <3> HIDE DEF r
    <3> QED BY <1>1, <3>1, <3>2
  <2> QED BY <2>1, <2>2
<1>6. CASE MonitorExit(t)
  <2> DEFINE verdict == IF Child(t).wrapper = "ok" THEN "succeeded" ELSE "failed"
  <2>1. /\ th' = [th EXCEPT ![t] = [th[t] EXCEPT !.pc = "decide", !.final = verdict]]
        /\ locked' = locked /\ th[t].pc = "watch"
    BY <1>6 DEF MonitorExit
  <2> HIDE DEF verdict
  <2> QED BY <1>4, <2>1
<1>7. CASE MonitorTimeout(t)
  <2>1. /\ th' = [th EXCEPT ![t] = [th[t] EXCEPT !.pc = "kill", !.final = "timed_out"]]
        /\ locked' = locked /\ th[t].pc = "watch"
    BY <1>7 DEF MonitorTimeout
  <2> QED BY <1>4, <2>1
<1> QED BY <1>3, <1>5, <1>6, <1>7 DEF Watching

LEMMA PollingStays ==
  ASSUME TypeOK, Admission, NEW t \in Pollers \cup {Recovery}, Polling(t),
         ProbeAlive(t) => t # Recovery
  PROVE  StaysOn(t)
<1>0. th[t] \in Thread /\ t \in Threads
  BY ThreadNames DEF TypeOK
<1>1. th[t].pc \in {"look", "probe"} /\ locked' = locked /\ row' = row
  BY DEF Polling, Look, ProbeTimedOut, ProbeDead, ProbeAlive, dbVars
<1>2. ASSUME NEW pc \in {"kill", "commit", "look", "probe"}, NEW final, NEW seen,
             th' = [th EXCEPT ![t] = [th[t] EXCEPT !.pc = pc, !.final = final, !.seen = seen]]
      PROVE  StaysOn(t)
  <2> DEFINE r == [th[t] EXCEPT !.pc = pc, !.final = final, !.seen = seen]
  <2>1. r.pc = pc /\ r.job = th[t].job /\ r.todo = th[t].todo
    BY <1>0 DEF Thread
  <2>2. th' = [th EXCEPT ![t] = r]
    BY <1>2
  <2> HIDE DEF r
  <2>3. th'[t] = r
    BY <1>0, <2>2, OthersStay
  <2>4. /\ th[t].pc \in {"watch", "look", "probe", "kill", "decide"}
        /\ th'[t].job = th[t].job /\ th'[t].todo = th[t].todo
        /\ th'[t].pc \in {"kill", "commit", "look", "probe"}
    BY <1>1, <2>1, <2>3
  <2> QED BY <1>0, <1>1, <2>4, StrideStays
<1>3. \A pc : [th[t] EXCEPT !.pc = pc]
                = [th[t] EXCEPT !.pc = pc, !.final = th[t].final, !.seen = th[t].seen]
  BY <1>0 DEF Thread
<1>4. CASE Look(t)
  <2> DEFINE j == th[t].job
  <2>1. CASE row[j].state # "running"
    <3>1. th' = [th EXCEPT ![t] = LookDone(t)]
      BY <1>4, <2>1 DEF Look
    <3>2. th'[t] = LookDone(t)
      BY <1>0, <3>1, OthersStay
    <3>3. t = Recovery => LookDone(t).pc = "each" /\ LookDone(t).todo = th[t].todo
      BY DEF LookDone, At
    <3> QED BY <1>0, <1>1, <2>1, <3>2, <3>3, DoneStays
  <2>2. CASE row[j].state = "running" /\ row[j].hold # "none"
    <3>1. th' = [th EXCEPT ![t] = [th[t] EXCEPT !.pc = "kill",
                                     !.final = ForcedState(row[j].hold, "none"), !.seen = TRUE]]
      BY <1>4, <2>2 DEF Look
    <3> QED BY <1>2, <3>1
  <2>3. CASE row[j].state = "running" /\ row[j].hold = "none" /\ receipt[j] # "none"
    <3>1. th' = [th EXCEPT ![t] = [th[t] EXCEPT !.pc = "commit",
                                     !.final = Receipt(j), !.seen = TRUE]]
      BY <1>4, <2>3 DEF Look
    <3> QED BY <1>2, <3>1
  <2>4. CASE row[j].state = "running" /\ row[j].hold = "none" /\ receipt[j] = "none"
    <3>1. th' = [th EXCEPT ![t] = [th[t] EXCEPT !.pc = "probe"]]
      BY <1>4, <2>4 DEF Look, Goto
    <3> QED BY <1>2, <1>3, <3>1
  <2> QED BY <2>1, <2>2, <2>3, <2>4
<1>5. CASE ProbeTimedOut(t)
  BY <1>2, <1>5 DEF ProbeTimedOut
<1>6. CASE ProbeDead(t)
  BY <1>2, <1>6 DEF ProbeDead
<1>7. CASE ProbeAlive(t)
  <2>1. th' = [th EXCEPT ![t] = [th[t] EXCEPT !.pc = "look"]]
    BY <1>7 DEF ProbeAlive
  <2> QED BY <1>2, <1>3, <2>1
<1> QED BY <1>4, <1>5, <1>6, <1>7 DEF Polling

LEMMA RecoveringStays ==
  ASSUME TypeOK, Admission, Recovering(Recovery)
  PROVE  StaysOn(Recovery)
<1> DEFINE t == Recovery
<1>0. th[t] \in Thread /\ t \in Threads
  BY ThreadNames DEF TypeOK
<1>1. CASE RecoverSelect(t)
  <2> DEFINE r == [At("each") EXCEPT !.todo = AllRunning]
  <2>1. r.pc = "each" /\ r.todo = AllRunning
    BY DEF At
  <2>2. th' = [th EXCEPT ![t] = r] /\ row' = row /\ locked' = locked
    BY <1>1 DEF RecoverSelect, dbVars
  <2> HIDE DEF r
  <2>3. th'[t] = r
    BY <1>0, <2>2, OthersStay
  <2>4. t \notin locked
    BY <1>0, <1>1, Known DEF RecoverSelect, HolderPCs, PassPCs
  <2> QED BY <2>1, <2>2, <2>3, <2>4 DEF StaysOn, WatchedBy, AllRunning
<1>2. CASE RecoverNext(t)
  <2>1. PICK j \in Oldest(th[t].todo, Queued) :
          th' = [th EXCEPT ![t] = [AtJob("look", j) EXCEPT !.todo = th[t].todo \ {j}]]
    BY <1>2 DEF RecoverNext
  <2> DEFINE r == [AtJob("look", j) EXCEPT !.todo = th[t].todo \ {j}]
  <2>2. r.pc = "look" /\ r.todo = th[t].todo \ {j} /\ r.job = j
    BY DEF At, AtJob
  <2>3. th' = [th EXCEPT ![t] = r] /\ locked' = locked /\ th[t].pc = "each"
    BY <1>2, <2>1 DEF RecoverNext
  <2> HIDE DEF r
  <2>4. th'[t] = r
    BY <1>0, <2>3, OthersStay
  <2> QED BY <2>2, <2>3, <2>4 DEF StaysOn, WatchedBy
<1>3. CASE RecoverDone(t)
  BY <1>3 DEF RecoverDone, StaysOn, WatchedBy
<1>4. CASE RetryTick(t) \/ Renotify(t) \/ RenotifyDone(t) \/ Restamp(t)
  BY <1>0, <1>4, IdleStays DEF RetryTick, Renotify, RenotifyDone, Restamp, WatchPCs
<1> QED BY <1>1, <1>2, <1>3, <1>4 DEF Recovering

\* A monitor starts with the job it is spawned for.
LEMMA MarkWatches ==
  ASSUME TypeOK, Admission, AllWatched, NEW t \in Threads, Mark(t)
  PROVE  AllWatched'
<1>0. th[t].pc = "mark" /\ t \in locked
  BY Known DEF Mark, PassPCs
<1>1. PICK j \in Jobs : j = th[t].job
  BY <1>0, Known DEF JobPCs
<1> DEFINE m == <<"monitor", j>>
           back == [At("scan") EXCEPT !.retry = th[t].retry]
<1>2. m \in Threads /\ t # m
  BY <1>0, <1>1, ThreadNames DEF Admission, SpawnedOnce
<1>3. m \notin locked /\ locked' = locked /\ faults' = faults
  BY <1>0, <1>2 DEF Admission, OneHolder, Mark, envVars
<1>4. th' = [th EXCEPT ![t] = back, ![m] = AtJob("watch", j)]
  BY <1>1 DEF Mark
<1> HIDE DEF back
<1>5. /\ th'[m] = AtJob("watch", j)
      /\ \A u \in Threads : u \notin {t, m} => th'[u] = th[u]
  BY <1>2, <1>4 DEF TypeOK
<1>6. WatchedBy(m, j)'
  <2>1. AtJob("watch", j).pc = "watch" /\ AtJob("watch", j).job = j
    BY DEF AtJob, At
  <2> QED BY <1>3, <1>5, <2>1 DEF WatchedBy
<1>7. AllRunning' \subseteq AllRunning \cup {j}
  <2>1. \A i \in Jobs : i # j => row'[i] = row[i]
    BY <1>1 DEF Mark, TypeOK
  <2> QED BY <2>1 DEF AllRunning
<1>8. ASSUME faults = 0, NEW i \in AllRunning', i # j
      PROVE  \E u \in Watchers(i) : WatchedBy(u, i)'
  <2>1. i \in AllRunning /\ i \in Jobs
    BY <1>7, <1>8 DEF AllRunning
  <2>2. PICK u \in Watchers(i) : WatchedBy(u, i)
    BY <1>8, <2>1 DEF AllWatched
  <2>3. u \in Threads
    BY <2>1, ThreadNames DEF Watchers
  <2>6. u # m
    BY <1>8, <2>1 DEF Watchers, Recovery
  <2>4. u # t
    BY <1>0, <2>2 DEF WatchedBy
  <2>5. th'[u] = th[u]
    BY <1>5, <2>3, <2>4, <2>6
  <2> QED BY <1>3, <2>2, <2>5 DEF WatchedBy
<1>9. m \in Watchers(j)
  BY DEF Watchers
<1> QED BY <1>3, <1>6, <1>8, <1>9 DEF AllWatched, Watchers, Recovery

\* Recovery hands a live job to a poller.
LEMMA SpawnWatches ==
  ASSUME TypeOK, Admission, AllWatched, ProbeAlive(Recovery)
  PROVE  AllWatched'
<1> DEFINE t == Recovery
<1>0. th[t].pc = "probe" /\ t \notin locked /\ t \in Threads
  BY ThreadNames, Known DEF ProbeAlive, HolderPCs, PassPCs
<1>1. PICK j \in Jobs : j = th[t].job
  BY <1>0, Known DEF JobPCs
<1> DEFINE p == <<"poller", j>>
<1>2. p \in Threads /\ t # p
  BY ThreadNames DEF Recovery
<1>3. th[p].pc = "off"
  BY <1>0, <1>1 DEF Admission, SpawnedOnce, Unvisited
<1>4. p \notin locked /\ locked' = locked /\ faults' = faults /\ row' = row
  BY <1>2, <1>3, Known DEF HolderPCs, PassPCs, ProbeAlive, envVars, dbVars
<1>5. th' = [th EXCEPT ![t] = LookDone(t), ![p] = AtJob("look", j)]
  BY <1>1 DEF ProbeAlive
<1>6. /\ th'[p] = AtJob("look", j) /\ th'[t] = LookDone(t)
      /\ \A u \in Threads : u \notin {t, p} => th'[u] = th[u]
  BY <1>0, <1>2, <1>5 DEF TypeOK
<1>7. WatchedBy(p, j)'
  <2>1. AtJob("look", j).pc = "look" /\ AtJob("look", j).job = j
    BY DEF AtJob, At
  <2> QED BY <1>4, <1>6, <2>1 DEF WatchedBy
<1>8. AllRunning' = AllRunning
  BY <1>4 DEF AllRunning
<1>9. LookDone(t).pc = "each" /\ LookDone(t).todo = th[t].todo
  BY DEF LookDone, At
<1>10. ASSUME faults = 0, NEW i \in AllRunning, i # j
       PROVE  \E u \in Watchers(i) : WatchedBy(u, i)'
  <2>1. i \in Jobs
    BY <1>10 DEF AllRunning
  <2>2. PICK u \in Watchers(i) : WatchedBy(u, i)
    BY <1>10 DEF AllWatched
  <2>3. u \in Threads
    BY <2>1, ThreadNames DEF Watchers
  <2>6. u # p
    BY <1>10, <2>1 DEF Watchers, Recovery
  <2>4. CASE u = t
    BY <1>0, <1>1, <1>4, <1>6, <1>9, <1>10, <2>2, <2>4 DEF WatchedBy
  <2>5. CASE u # t
    <3>1. th'[u] = th[u]
      BY <1>6, <2>3, <2>5, <2>6
    <3> QED BY <1>4, <2>2, <3>1 DEF WatchedBy
  <2> QED BY <2>4, <2>5
<1>11. p \in Watchers(j)
  BY DEF Watchers
<1> QED BY <1>4, <1>7, <1>8, <1>10, <1>11 DEF AllWatched, Watchers, Recovery

LEMMA AdmittingOthers ==
  ASSUME TypeOK, NEW t \in Threads, Admitting(t), ~Mark(t)
  PROVE  Others(t)
<1> SUFFICES \E r : th' = [th EXCEPT ![t] = r]
  BY OthersStay DEF Others
<1>1. CASE AdmitLock(t)
  <2>1. th' = [th EXCEPT ![t] = At("scan")] \/ th' = [th EXCEPT ![t] = Ended(t)]
    BY <1>1 DEF AdmitLock, Abort
  <2> QED BY <2>1
<1>2. CASE StartStale(t)
  BY <1>2 DEF StartStale
<1>3. CASE Start(t)
  <2>1. th' = [th EXCEPT ![t] = [th[t] EXCEPT !.pc = "mark"]]
    BY <1>3 DEF Start, Goto
  <2> QED BY <2>1
<1>4. CASE Scan(t)
  <2>1. CASE PassHolds(t) \/ PassAtCapacity(t) \/ PassFindsNone(t)
    BY <2>1 DEF PassHolds, PassAtCapacity, PassFindsNone, EndPass
  <2>2. CASE PassDisplaces(t)
    BY <2>2 DEF PassDisplaces
  <2>3. CASE PassChooses(t)
    BY <2>3 DEF PassChooses
  <2> QED BY <1>4, <2>1, <2>2, <2>3 DEF Scan
<1> QED BY <1>1, <1>2, <1>3, <1>4 DEF Admitting

LEMMA WatchStep == Step /\ OneReporter /\ AllWatched => AllWatched'
<1> SUFFICES ASSUME Step, OneReporter, AllWatched PROVE AllWatched'
  OBVIOUS
<1>0. TypeOK /\ Reports /\ Admission
  BY DEF Step, Inv
<1>1. ASSUME row' = row, th' = th, locked' = locked, faults' = faults PROVE AllWatched'
  <2>1. AllRunning' = AllRunning /\ \A t, j : WatchedBy(t, j) => WatchedBy(t, j)'
    BY <1>1 DEF AllRunning, WatchedBy
  <2> QED BY <1>1, <2>1 DEF AllWatched, Watchers, Recovery
<1>2. ASSUME NEW t \in Threads, t \in locked \/ th[t].pc \notin WatchPCs, Others(t),
             AllRunning' \subseteq AllRunning, locked' \subseteq locked \cup {t}, faults' = faults
      PROVE  AllWatched'
  BY <1>2, IdleStays, WatchKept
<1>3. CASE Environment
  BY <1>1, <1>3 DEF Environment, WrapperExits, WrapperDies, GroupDrains, LogGrows,
                    CooldownElapses, dbVars, srvVars, envVars
<1>4. ASSUME NEW j \in Jobs, CreateJob(j) PROVE AllWatched'
  <2> DEFINE t == <<"create", j>>
  <2>1. t \in Threads /\ th[t].pc = "off" /\ Others(t)
    BY <1>0, <1>4, ThreadNames, OthersStay DEF CreateJob, Others, Admission, SpawnedOnce
  <2>2. AllRunning' \subseteq AllRunning /\ locked' = locked /\ faults' = faults
    BY <1>0, <1>4 DEF CreateJob, AllRunning, envVars, TypeOK, Row
  <2> HIDE DEF t
  <2> QED BY <1>2, <2>1, <2>2 DEF WatchPCs
<1>5. ASSUME NEW j \in Jobs, CancelRead(j) PROVE AllWatched'
  <2> DEFINE t == <<"cancel", j>>
  <2>1. t \in Threads /\ Walks(t)
    BY <1>0, <1>5, ThreadNames, CancelWalks
  <2>2. th[t].pc = "off" /\ faults' = faults
    BY <1>5 DEF CancelRead, envVars
  <2> HIDE DEF t
  <2> QED BY <2>1, <2>2, IdleStays, WalkKeepsWatch DEF WatchPCs
<1>6. ASSUME NEW t \in Threads, Finishing(t) PROVE AllWatched'
  <2>1. Walks(t) /\ StaysOn(t)
    BY <1>0, <1>6, FinishingWalks, FinishingStays
  <2>2. faults' = faults
    BY <1>6 DEF Finishing, CancelMark, DisplaceMark, MarkHold, Terminate, Commit, Notify, Stamp,
                envVars
  <2> QED BY <2>1, <2>2, WalkKeepsWatch
<1>7. ASSUME NEW t \in Threads, Admitting(t) PROVE AllWatched'
  <2>1. CASE Mark(t)
    BY <1>0, <2>1, MarkWatches
  <2>2. CASE ~Mark(t)
    <3>1. /\ th[t].pc \in {"lock", "scan", "start"} /\ row' = row /\ faults' = faults
          /\ locked' \subseteq locked \cup {t}
      BY <1>7, <2>2 DEF Admitting, AdmitLock, Scan, StartStale, Start, Abort, EndPass, PassHolds,
           PassDisplaces, PassAtCapacity, PassFindsNone, PassChooses, dbVars, envVars
    <3>2. Others(t)
      BY <1>0, <1>7, <2>2, AdmittingOthers
    <3> QED BY <1>2, <3>1, <3>2 DEF AllRunning, WatchPCs
  <2> QED BY <2>1, <2>2
<1>8. ASSUME NEW t \in Monitors, Watching(t) PROVE AllWatched'
  <2>1. Walks(t) /\ StaysOn(t) /\ t \in Threads
    BY <1>0, <1>8, WatchingWalks, WatchingStays, ThreadNames
  <2>2. faults' = faults
    BY <1>8 DEF Watching, MonitorCancelled, MonitorExit, MonitorTimeout, MonitorDecide, envVars
  <2> QED BY <2>1, <2>2, WalkKeepsWatch
<1>9. ASSUME NEW t \in Pollers \cup {Recovery}, Polling(t) PROVE AllWatched'
  <2>1. CASE ProbeAlive(t) /\ t = Recovery
    BY <1>0, <2>1, SpawnWatches
  <2>2. CASE ProbeAlive(t) => t # Recovery
    <3>1. Walks(t) /\ StaysOn(t) /\ t \in Threads
      BY <1>0, <1>9, <2>2, PollingWalks, PollingStays, ThreadNames
    <3>2. faults' = faults
      BY <1>9 DEF Polling, Look, ProbeTimedOut, ProbeDead, ProbeAlive, envVars
    <3> QED BY <3>1, <3>2, WalkKeepsWatch
  <2> QED BY <2>1, <2>2
<1>10. CASE Recovering(Recovery)
  <2>1. faults' = faults
    BY <1>10 DEF Recovering, RecoverSelect, RecoverNext, RecoverDone, RetryTick, Renotify,
                 RenotifyDone, Restamp, envVars
  <2> QED BY <1>0, <1>10, <2>1, RecoveringWalks, RecoveringStays, ThreadNames, WalkKeepsWatch
<1>11. CASE TimerFires
  <2>1. th[Timer].pc = "off" /\ faults' = faults
    BY <1>11 DEF TimerFires, envVars
  <2> QED BY <1>0, <1>11, <2>1, TimerWalks, ThreadNames, IdleStays, WalkKeepsWatch DEF WatchPCs
<1>12. CASE Failure
  <2>1. CASE Crash
    <3>1. th'[Recovery] = At("select") /\ locked' = {}
      BY <2>1, ThreadNames DEF Crash
    <3>2. \A j : WatchedBy(Recovery, j)'
      BY <3>1 DEF WatchedBy, At, Recovery
    <3> QED BY <3>2 DEF AllWatched, Watchers, Recovery
  <2>2. CASE ~Crash
    <3>1. faults \in Nat
      BY <1>0, QueueAssumption DEF TypeOK
    <3>2. faults' = faults + 1
      BY <1>12, <2>2 DEF Failure, NotifyFails, StartFails, MonitorWaitFails, RenotifyFails
    <3> QED BY <3>1, <3>2 DEF AllWatched
  <2> QED BY <2>1, <2>2
<1>13. CASE UNCHANGED vars
  BY <1>1, <1>13 DEF vars
<1> QED BY <1>3, <1>4, <1>5, <1>6, <1>7, <1>8, <1>9, <1>10, <1>11, <1>12, <1>13
        DEF Step, Next, Requests, ServerStep

LEMMA WatchInit == Init => OneReporter /\ AllWatched
<1> SUFFICES ASSUME Init PROVE OneReporter /\ AllWatched
  OBVIOUS
<1>1. \A t \in Threads : th[t].pc \in {"off", "sleep"}
  BY DEF Init, Off, At
<1>2. AllRunning = {}
  BY DEF Init, AllRunning, NoRow
<1> QED BY <1>1, <1>2, ThreadNames DEF OneReporter, AllWatched

-----------------------------------------------------------------------------
(* Process groups *)

\* What threads know about the group of a job that has begun does not change, and
\* a group that is gone stays gone.
Persists ==
  \A j \in Jobs :
    /\ launches[j] # 0 => launches'[j] # 0
    /\ Begun(j) => /\ Begun(j)' /\ row'[j].pg = row[j].pg /\ launches'[j] = launches[j]
                   /\ \A k \in Launches : ~proc[j][k].group => ~proc'[j][k].group

LEMMA KnownStays ==
  ASSUME TypeOK, Persists, NEW u \in Threads, KnowsGroup(u), th'[u] = th[u],
         u \in locked' <=> u \in locked
  PROVE  KnowsGroup(u)'
<1>0. th[u] \in Thread
  BY DEF TypeOK
<1>1. th[u].pc \in {"mark", "cmark", "dmark", "kill", "watch", "decide", "commit"} => th[u].job \in Jobs
  BY <1>0 DEF Thread, JobPCs, VerdictPCs
<1>2. \A j \in Jobs : /\ launches[j] # 0 => launches[j] \in Launches
                      /\ row[j].pg # 0 => row[j].pg \in Launches
  BY QueueAssumption DEF TypeOK, Row, Launches
<1>3. (Judges(u)' <=> Judges(u)) /\ (OwnsChild(u)' <=> OwnsChild(u))
  BY DEF Judges, OwnsChild, Pollers, Recovery
<1> DEFINE j == th[u].job
<1>4. CASE th[u].pc \notin {"mark", "cmark", "dmark", "kill", "watch", "decide", "commit"}
  BY <1>4 DEF KnowsGroup
<1>5. CASE th[u].pc \in {"mark", "cmark", "dmark", "kill", "watch", "decide", "commit"}
  <2>1. j \in Jobs
    BY <1>1, <1>5
  <2>2. launches[j] # 0 => launches'[j] # 0
    BY <2>1 DEF Persists
  <2>3. Begun(j) => /\ Begun(j)' /\ row'[j].pg = row[j].pg /\ launches'[j] = launches[j]
                    /\ \A k \in Launches : ~proc[j][k].group => ~proc'[j][k].group
    BY <2>1 DEF Persists
  <2> QED BY <1>2, <1>3, <1>5, <2>1, <2>2, <2>3 DEF KnowsGroup, Begun
<1> QED BY <1>4, <1>5

LEMMA GroupsStep ==
  ASSUME TypeOK, GroupsKnown, Persists, \A j \in Jobs : JobGroups(j)',
         \A u \in Threads : KnowsGroup(u)' \/ (th'[u] = th[u] /\ (u \in locked' <=> u \in locked))
  PROVE  GroupsKnown'
<1>1. ASSUME NEW u \in Threads PROVE KnowsGroup(u)'
  BY <1>1, KnownStays DEF GroupsKnown
<1> QED BY <1>1 DEF GroupsKnown

LEMMA CalmJobs ==
  ASSUME TypeOK, GroupsKnown, RowsClose, \A j \in Jobs : row'[j].pg = row[j].pg,
         UNCHANGED <<proc, launches>>
  PROVE  Persists /\ \A j \in Jobs : JobGroups(j)'
<1>1. Persists
  BY DEF Persists, RowsClose, Begun, Terminal
<1>2. \A j \in Jobs : JobGroups(j)'
  BY DEF GroupsKnown, JobGroups, RowsClose, Terminal
<1> QED BY <1>1, <1>2

\* A step of one thread that changes no process
LEMMA MoveGroups ==
  ASSUME TypeOK, GroupsKnown, NEW t \in Threads, Others(t), locked' \ {t} = locked \ {t}, RowsClose,
         \A j \in Jobs : row'[j].pg = row[j].pg, UNCHANGED <<proc, launches>>, KnowsGroup(t)'
  PROVE  GroupsKnown'
<1>1. \A u \in Threads : u # t => th'[u] = th[u] /\ (u \in locked' <=> u \in locked)
  BY DEF Others
<1> QED BY <1>1, CalmJobs, GroupsStep

LEMMA WalkGroups ==
  ASSUME TypeOK, GroupsKnown, NEW t \in Threads, Walks(t),
         \A j \in Jobs : row'[j].pg = row[j].pg, proc' = proc, KnowsGroup(t)'
  PROVE  GroupsKnown'
<1>1. RowsClose /\ launches' = launches /\ Others(t) /\ locked' \ {t} = locked \ {t}
  BY DEF Walks
<1> QED BY <1>1, MoveGroups

\* Program points at which nothing is known about the group
FreePCs == {"off", "lock", "look", "probe", "notify", "stamp", "select", "each", "sleep",
            "renotify", "restamp"}

LEMMA FreeKnows ==
  ASSUME NEW t \in Threads, th'[t].pc \in FreePCs \/ (th'[t].pc = "scan" /\ ~th'[t].seen)
  PROVE  KnowsGroup(t)'
BY DEF KnowsGroup, FreePCs

LEMMA EndKnows ==
  ASSUME TypeOK, NEW t \in Threads,
         Abort(t) \/ Resume(t) \/ FinishFailed(t) \/ \E retry : EndPass(t, retry)
  PROVE  KnowsGroup(t)'
<1>1. th' = [th EXCEPT ![t] = Ended(t)] \/ th' = [th EXCEPT ![t] = AfterFinish(t)]
  BY DEF Abort, Resume, FinishFailed, EndPass
<1>2. th'[t] = Ended(t) \/ th'[t] = AfterFinish(t)
  BY <1>1, OthersStay
<1>3. Ended(t).pc \in FreePCs
  BY DEF Ended, Off, At, FreePCs
<1>4. AfterFinish(t).pc \in FreePCs \/ (AfterFinish(t).pc = "scan" /\ ~AfterFinish(t).seen)
  BY DEF AfterFinish, At, FreePCs
<1> QED BY <1>2, <1>3, <1>4, FreeKnows

LEMMA FinishingGroups ==
  ASSUME TypeOK, Admission, GroupsKnown, NEW t \in Threads, Finishing(t)
  PROVE  GroupsKnown'
<1>0. th[t] \in Thread /\ Walks(t) /\ KnowsGroup(t) /\ proc' = proc /\ launches' = launches
  BY FinishingWalks DEF TypeOK, GroupsKnown, Finishing, CancelMark, DisplaceMark, MarkHold,
     Terminate, Commit, Notify, Stamp, osVars
<1>1. th[t].pc \in {"cmark", "dmark", "kill", "commit", "notify", "stamp"}
  BY DEF Finishing, CancelMark, DisplaceMark, MarkHold, Terminate, Commit, Notify, Stamp
<1>2. PICK j \in Jobs : /\ j = th[t].job /\ row[j] \in Row
                        /\ launches[j] \in 0 .. MaxLaunches /\ JobGroups(j)
  BY <1>0, <1>1 DEF Thread, JobPCs, VerdictPCs, TypeOK, GroupsKnown
<1>3. \A i \in Jobs : row'[i].pg = row[i].pg
  <2>1. PICK x : row' = row \/ (row' = [row EXCEPT ![j] = x] /\ x.pg = row[j].pg)
    <3>1. CASE CancelMark(t) \/ DisplaceMark(t)
      <4>1. PICK hold : row' = row \/ row' = [row EXCEPT ![j] = [row[j] EXCEPT !.hold = hold]]
        BY <1>2, <3>1 DEF CancelMark, DisplaceMark, MarkHold
      <4>2. [row[j] EXCEPT !.hold = hold].pg = row[j].pg
        BY <1>2 DEF Row
      <4> QED BY <4>1, <4>2
    <3>2. CASE Commit(t)
      <4> DEFINE ended == [row[j] EXCEPT !.state = th[t].final, !.hold = "none",
                                         !.finished = NextRank(Finished, Jobs)]
      <4>1. row' = row \/ row' = [row EXCEPT ![j] = ended]
        BY <1>2, <3>2 DEF Commit
      <4>2. ended.pg = row[j].pg
        BY <1>2 DEF Row
      <4> QED BY <4>1, <4>2
    <3>3. CASE Stamp(t)
      <4>1. row' = [row EXCEPT ![j] = [row[j] EXCEPT !.notified = TRUE]]
        BY <1>2, <3>3 DEF Stamp
      <4>2. [row[j] EXCEPT !.notified = TRUE].pg = row[j].pg
        BY <1>2 DEF Row
      <4> QED BY <4>1, <4>2
    <3>4. CASE Terminate(t) \/ Notify(t)
      BY <3>4 DEF Terminate, Notify, dbVars
    <3> QED BY <3>1, <3>2, <3>3, <3>4 DEF Finishing
  <2> QED BY <1>2, <2>1 DEF TypeOK
<1>4. Begun(j) => Begun(j)'
  BY <1>0, <1>2 DEF Walks, RowsClose, Begun, Terminal
<1> SUFFICES KnowsGroup(t)'
  BY <1>0, <1>3, WalkGroups
<1>5. CASE CancelMark(t) \/ DisplaceMark(t)
  <2> DEFINE r == [th[t] EXCEPT !.pc = "kill"]
  <2>1. th' = [th EXCEPT ![t] = r] /\ th[t].pc \in {"cmark", "dmark"}
    BY <1>5 DEF CancelMark, DisplaceMark, MarkHold, Goto
  <2>2. r.pc = "kill" /\ r.job = j
    BY <1>0, <1>2 DEF Thread
  <2> HIDE DEF r
  <2>3. th'[t].pc = "kill" /\ th'[t].job = j
    BY <2>1, <2>2, OthersStay
  <2>4. Begun(j) /\ row[j].pg # 0
    BY <1>2, <1>0, <2>1 DEF KnowsGroup
  <2>5. launches[j] # 0
    BY <1>2, <2>4 DEF JobGroups, Row, Launches
  <2>6. Begun(j)' /\ row'[j].pg # 0 /\ launches'[j] # 0
    BY <1>0, <1>2, <1>3, <1>4, <2>4, <2>5
  <2> QED BY <2>3, <2>6 DEF KnowsGroup, Begun
<1>6. CASE Terminate(t)
  <2> DEFINE r == [th[t] EXCEPT !.pc = IF OwnsChild(t) THEN "decide" ELSE "commit"]
  <2>1. th' = [th EXCEPT ![t] = r] /\ th[t].pc = "kill" /\ locked' = locked
    BY <1>6 DEF Terminate, Goto
  <2>2. /\ r.pc = (IF OwnsChild(t) THEN "decide" ELSE "commit")
        /\ r.job = j
    BY <1>0, <1>2 DEF Thread
  <2> HIDE DEF r
  <2>3. th'[t] = r
    BY <2>1, OthersStay
  <2>4. Group(t) = 0 \/ ~proc[j][Group(t)].group
    BY <1>2, <1>6 DEF Terminate
  <2>5. Judges(t)' <=> Judges(t)
    BY <2>1 DEF Judges, Pollers, Recovery
  <2>6. CASE OwnsChild(t)
    <3>1. th'[t].pc = "decide" /\ th'[t].job = j
      BY <2>2, <2>3, <2>6
    <3>2. Begun(j) /\ launches[j] # 0
      BY <1>2, <1>0, <2>1, <2>6 DEF KnowsGroup
    <3>3. ~proc[j][launches[j]].group
      BY <1>2, <2>4, <2>6, <3>2 DEF Group
    <3>4. Begun(j)' /\ launches'[j] # 0 /\ ~proc'[j][launches'[j]].group
      BY <1>0, <1>4, <3>2, <3>3
    <3> QED BY <3>1, <3>4 DEF KnowsGroup, Begun
  <2>7. CASE ~OwnsChild(t)
    <3>1. th'[t].pc = "commit" /\ th'[t].job = j
      BY <2>2, <2>3, <2>7
    <3>2. CASE ~Judges(t)
      BY <2>5, <3>1, <3>2 DEF KnowsGroup
    <3>3. CASE Judges(t)
      <4>1. Begun(j) /\ row[j].pg # 0
        BY <1>2, <1>0, <2>1, <2>7, <3>3 DEF KnowsGroup
      <4>2. ~proc[j][row[j].pg].group
        BY <1>2, <2>4, <2>7, <4>1 DEF Group
      <4>3. Begun(j)' /\ row'[j].pg # 0 /\ ~proc'[j][row'[j].pg].group
        BY <1>0, <1>2, <1>3, <1>4, <4>1, <4>2
      <4> QED BY <3>1, <4>3 DEF KnowsGroup, Begun
    <3> QED BY <3>2, <3>3
  <2> QED BY <2>6, <2>7
<1>7. CASE Commit(t)
  <2>1. Abort(t) \/ Resume(t) \/ th' = [th EXCEPT ![t] = [th[t] EXCEPT !.pc = "notify"]]
    BY <1>7 DEF Commit, Goto
  <2>2. [th[t] EXCEPT !.pc = "notify"].pc = "notify"
    BY <1>0 DEF Thread
  <2>3. th' = [th EXCEPT ![t] = [th[t] EXCEPT !.pc = "notify"]] => th'[t].pc = "notify"
    BY <2>2, OthersStay
  <2> QED BY <2>1, <2>3, EndKnows, FreeKnows DEF FreePCs
<1>8. CASE Notify(t)
  <2>1. FinishFailed(t) \/ th' = [th EXCEPT ![t] = [th[t] EXCEPT !.pc = "stamp"]]
    BY <1>8 DEF Notify, Goto
  <2>2. [th[t] EXCEPT !.pc = "stamp"].pc = "stamp"
    BY <1>0 DEF Thread
  <2>3. th' = [th EXCEPT ![t] = [th[t] EXCEPT !.pc = "stamp"]] => th'[t].pc = "stamp"
    BY <2>2, OthersStay
  <2> QED BY <2>1, <2>3, EndKnows, FreeKnows DEF FreePCs
<1>9. CASE Stamp(t)
  BY <1>9, EndKnows DEF Stamp
<1> QED BY <1>5, <1>6, <1>7, <1>8, <1>9 DEF Finishing

\* A pass looks, launches and marks.
LEMMA ScanGroups ==
  ASSUME TypeOK, Admission, GroupsKnown, NEW t \in Threads, Scan(t)
  PROVE  KnowsGroup(t)'
<1>0. th[t] \in Thread /\ th[t].pc = "scan" /\ row' = row
  BY DEF Scan, TypeOK, dbVars
<1>1. ~th[t].seen
  BY <1>0 DEF KnowsGroup, GroupsKnown
<1>2. CASE PassHolds(t) \/ PassAtCapacity(t) \/ PassFindsNone(t)
  BY <1>2, EndKnows DEF PassHolds, PassAtCapacity, PassFindsNone
<1>3. CASE PassDisplaces(t)
  <2>1. PICK j \in Oldest(Running("background"), Started) :
          th' = [th EXCEPT ![t].pc = "dmark", ![t].job = j,
                   ![t].final = "displaced", ![t].seen = TRUE]
    BY <1>3 DEF PassDisplaces
  <2> DEFINE r == [th[t] EXCEPT !.pc = "dmark", !.job = j, !.final = "displaced", !.seen = TRUE]
  <2>2. r.pc = "dmark" /\ r.job = j
    BY <1>0 DEF Thread
  <2>3. th' = [th EXCEPT ![t] = r]
    BY <2>1
  <2> HIDE DEF r
  <2>4. th'[t].pc = "dmark" /\ th'[t].job = j
    BY <2>2, <2>3, OthersStay
  <2>5. j \in Jobs /\ row[j].state = "running"
    BY DEF Oldest, Running
  <2>6. row'[j].state = "running" /\ row'[j].pg # 0
    BY <1>0, <2>5 DEF GroupsKnown, JobGroups
  <2> QED BY <2>4, <2>6 DEF KnowsGroup, Begun
<1>4. CASE PassChooses(t)
  <2> DEFINE retry == th[t].retry \/ SkipsCoolingPerf
  <2>1. \E j : th' = [th EXCEPT ![t].pc = "start", ![t].job = j, ![t].retry = retry]
    BY <1>4 DEF PassChooses
  <2>2. PICK j : th' = [th EXCEPT ![t].pc = "start", ![t].job = j, ![t].retry = retry]
    BY <2>1
  <2> DEFINE r == [th[t] EXCEPT !.pc = "start", !.job = j, !.retry = retry]
  <2>3. r.pc = "start" /\ r.seen = th[t].seen
    BY <1>0 DEF Thread
  <2>4. th' = [th EXCEPT ![t] = r]
    BY <2>2
  <2> HIDE DEF r
  <2>5. th'[t].pc = "start" /\ ~th'[t].seen
    BY <1>1, <2>3, <2>4, OthersStay
  <2> QED BY <2>5 DEF KnowsGroup
<1> QED BY <1>2, <1>3, <1>4 DEF Scan

LEMMA StartGroups ==
  ASSUME TypeOK, Admission, GroupsKnown, NEW t \in Threads, Start(t)
  PROVE  GroupsKnown'
<1>0. th[t] \in Thread /\ th[t].pc = "start" /\ row' = row /\ locked' = locked
  BY DEF Start, TypeOK, dbVars
<1>1. PICK j \in Jobs : j = th[t].job
  BY <1>0 DEF Thread, JobPCs
<1> DEFINE k == launches[j] + 1
           r == [th[t] EXCEPT !.pc = "mark"]
<1>2. /\ row[j].state = "pending" /\ k \in Launches
      /\ launches' = [launches EXCEPT ![j] = k]
      /\ proc' = [proc EXCEPT ![j][k] = [wrapper |-> "run", group |-> TRUE]]
      /\ th' = [th EXCEPT ![t] = r]
  BY <1>1 DEF Start, Goto
<1>3. r.pc = "mark" /\ r.job = j
  BY <1>0, <1>1 DEF Thread
<1> HIDE DEF r
<1>4. th'[t] = r /\ Others(t)
  BY <1>2, OthersStay DEF Others
<1>5. launches[j] \in Nat /\ launches'[j] = k /\ \A i \in Jobs : i # j => launches'[i] = launches[i]
  BY <1>2, QueueAssumption DEF TypeOK
<1>6. /\ \A i \in Jobs : i # j => proc'[i] = proc[i]
      /\ proc'[j][k] = [wrapper |-> "run", group |-> TRUE]
      /\ \A l \in Launches : l # k => proc'[j][l] = proc[j][l]
  BY <1>2 DEF TypeOK
<1>7. Persists
  BY <1>0, <1>2, <1>5, <1>6 DEF Persists, Begun
<1>8. \A i \in Jobs : JobGroups(i)'
  <2>1. ASSUME NEW i \in Jobs, i # j PROVE JobGroups(i)'
    BY <1>0, <1>5, <1>6, <2>1 DEF GroupsKnown, JobGroups
  <2>2. row[j].pg \in Nat /\ row[j].pg <= launches[j]
    BY <1>0, QueueAssumption DEF GroupsKnown, JobGroups, TypeOK, Row, Launches
  <2>3. \A l \in Launches : proc'[j][l].wrapper = "run" => proc'[j][l].group
    BY <1>6 DEF GroupsKnown, JobGroups
  <2>4. row'[j].pg <= launches'[j]
    BY <1>0, <1>5, <2>2
  <2>5. JobGroups(j)'
    BY <1>0, <1>2, <2>3, <2>4 DEF JobGroups
  <2> QED BY <2>1, <2>5
<1>9. KnowsGroup(t)'
  <2>1. launches'[j] # 0
    BY <1>5
  <2> QED BY <1>3, <1>4, <2>1 DEF KnowsGroup
<1> QED BY <1>0, <1>4, <1>7, <1>8, <1>9, GroupsStep DEF Others

LEMMA MarkGroups ==
  ASSUME TypeOK, Admission, GroupsKnown, NEW t \in Threads, Mark(t)
  PROVE  GroupsKnown'
<1>0. /\ th[t] \in Thread /\ th[t].pc = "mark" /\ locked' = locked
      /\ proc' = proc /\ launches' = launches
  BY DEF Mark, TypeOK, osVars
<1>1. PICK j \in Jobs : j = th[t].job /\ row[j].state # "absent" /\ launches[j] # 0
  BY <1>0, Known DEF JobPCs, GroupsKnown, KnowsGroup
<1> DEFINE m == <<"monitor", j>>
           back == [At("scan") EXCEPT !.retry = th[t].retry]
           started == [row[j] EXCEPT !.state = "running", !.hold = "none", !.pg = launches[j],
                                     !.started = NextRank(Started, OfType(JobType[j]))]
<1>2. /\ th' = [th EXCEPT ![t] = back, ![m] = AtJob("watch", j)]
      /\ row' = IF row[j].state = "pending" THEN [row EXCEPT ![j] = started] ELSE row
  BY <1>1 DEF Mark
<1>3. back.pc = "scan" /\ ~back.seen /\ AtJob("watch", j).pc = "watch" /\ AtJob("watch", j).job = j
  BY DEF At, AtJob
<1>4. started.state = "running" /\ started.pg = launches[j]
  BY DEF TypeOK, Row
<1>5. m \in Threads /\ m # t
  BY <1>0, <1>1, ThreadNames DEF Admission, SpawnedOnce
<1> HIDE DEF back, started, m
<1>6. /\ th'[t] = back /\ th'[m] = AtJob("watch", j)
      /\ \A u \in Threads : u \notin {t, m} => th'[u] = th[u]
  BY <1>2, <1>5 DEF TypeOK
<1>7. /\ \A i \in Jobs : i # j => row'[i] = row[i]
      /\ row'[j] = IF row[j].state = "pending" THEN started ELSE row[j]
  BY <1>2 DEF TypeOK
<1>8. Begun(j)'
  BY <1>1, <1>4, <1>7 DEF Begun
<1>9. Persists
  BY <1>0, <1>7 DEF Persists, Begun
<1>10. \A i \in Jobs : JobGroups(i)'
  <2>1. ASSUME NEW i \in Jobs, i # j PROVE JobGroups(i)'
    BY <1>0, <1>7, <2>1 DEF GroupsKnown, JobGroups
  <2>2. launches[j] \in Nat
    BY QueueAssumption DEF TypeOK
  <2>3. JobGroups(j)'
    BY <1>0, <1>1, <1>4, <1>7, <2>2 DEF GroupsKnown, JobGroups
  <2> QED BY <2>1, <2>3
<1>11. KnowsGroup(t)'
  BY <1>3, <1>6, FreeKnows
<1>12. KnowsGroup(m)'
  <2>1. th'[m].pc = "watch" /\ th'[m].job = j /\ launches'[j] # 0
    BY <1>0, <1>1, <1>3, <1>6
  <2> QED BY <1>8, <2>1 DEF KnowsGroup, Begun
<1>13. \A u \in Threads : KnowsGroup(u)' \/ (th'[u] = th[u] /\ (u \in locked' <=> u \in locked))
  BY <1>0, <1>6, <1>11, <1>12
<1> QED BY <1>9, <1>10, <1>13, GroupsStep

LEMMA AdmittingGroups ==
  ASSUME TypeOK, Admission, GroupsKnown, NEW t \in Threads, Admitting(t)
  PROVE  GroupsKnown'
<1>1. CASE Mark(t)
  BY <1>1, MarkGroups
<1>2. CASE Start(t)
  BY <1>2, StartGroups
<1>3. CASE AdmitLock(t) \/ Scan(t) \/ StartStale(t)
  <2>1. UNCHANGED <<row, proc, launches>> /\ RowsClose
    BY <1>3, RowsSame DEF AdmitLock, Scan, StartStale, dbVars, osVars
  <2>2. th[t].pc # "mark"
    BY <1>3 DEF AdmitLock, Scan, StartStale
  <2>3. Others(t)
    BY <2>2, AdmittingOthers DEF Mark
  <2>4. locked' \ {t} = locked \ {t}
    BY <1>3 DEF AdmitLock, Scan, StartStale, Abort, EndPass, PassHolds, PassDisplaces,
                PassAtCapacity, PassFindsNone, PassChooses
  <2>5. KnowsGroup(t)'
    <3>1. CASE Scan(t)
      BY <3>1, ScanGroups
    <3>2. CASE AdmitLock(t)
      <4>1. Abort(t) \/ th' = [th EXCEPT ![t] = At("scan")]
        BY <3>2 DEF AdmitLock
      <4>2. At("scan").pc = "scan" /\ ~At("scan").seen
        BY DEF At
      <4> QED BY <4>1, <4>2, EndKnows, FreeKnows, OthersStay
    <3>3. CASE StartStale(t)
      <4> DEFINE r == [At("scan") EXCEPT !.retry = th[t].retry]
      <4>1. r.pc = "scan" /\ ~r.seen
        BY DEF At
      <4>2. th' = [th EXCEPT ![t] = r]
        BY <3>3 DEF StartStale
      <4> HIDE DEF r
      <4> QED BY <4>1, <4>2, FreeKnows, OthersStay
    <3> QED BY <1>3, <3>1, <3>2, <3>3
  <2> QED BY <2>1, <2>3, <2>4, <2>5, MoveGroups
<1> QED BY <1>1, <1>2, <1>3 DEF Admitting

LEMMA WatchingGroups ==
  ASSUME TypeOK, Admission, GroupsKnown, NEW t \in Monitors, Watching(t) \/ MonitorWaitFails(t)
  PROVE  KnowsGroup(t)'
<1>0. /\ t \in Threads /\ th[t] \in Thread /\ th[t].pc \in {"watch", "decide"} /\ locked' = locked
      /\ UNCHANGED <<row, proc, launches>>
  BY ThreadNames DEF TypeOK, Watching, MonitorCancelled, MonitorExit, MonitorTimeout, MonitorDecide,
     MonitorWaitFails, dbVars, osVars
<1>1. PICK j \in Jobs : j = th[t].job
  BY <1>0 DEF Thread, JobPCs, VerdictPCs
<1>2. Begun(j) /\ launches[j] # 0 /\ (th[t].pc = "decide" => ~proc[j][launches[j]].group)
  BY <1>0, <1>1 DEF GroupsKnown, KnowsGroup
<1>3. t \notin locked'
  BY <1>0, Known DEF HolderPCs, PassPCs
<1>4. (OwnsChild(t) /\ Judges(t))'
  BY <1>3 DEF OwnsChild, Judges, Monitors, Pollers, Recovery
<1>5. ASSUME NEW pc \in {"decide", "kill"}, NEW final,
             th' = [th EXCEPT ![t] = [th[t] EXCEPT !.pc = pc, !.final = final]],
             pc = "decide" => ~proc[j][launches[j]].group
      PROVE  KnowsGroup(t)'
  <2> DEFINE r == [th[t] EXCEPT !.pc = pc, !.final = final]
  <2>1. r.pc = pc /\ r.job = j
    BY <1>0, <1>1 DEF Thread
  <2>2. th' = [th EXCEPT ![t] = r]
    BY <1>5
  <2> HIDE DEF r
  <2>3. th'[t].pc = pc /\ th'[t].job = j
    BY <1>0, <2>1, <2>2, OthersStay
  <2> QED BY <1>0, <1>2, <1>4, <1>5, <2>3 DEF KnowsGroup, Begun
<1>6. ASSUME th' = [th EXCEPT ![t] = Off] PROVE KnowsGroup(t)'
  <2>1. Off.pc \in FreePCs
    BY DEF Off, At, FreePCs
  <2> QED BY <1>0, <1>6, <2>1, OthersStay, FreeKnows
<1>7. CASE MonitorCancelled(t)
  BY <1>6, <1>7 DEF MonitorCancelled
<1>8. CASE MonitorExit(t)
  <2> DEFINE verdict == IF Child(t).wrapper = "ok" THEN "succeeded" ELSE "failed"
  <2>1. th' = [th EXCEPT ![t] = [th[t] EXCEPT !.pc = "decide", !.final = verdict]]
    BY <1>8 DEF MonitorExit
  <2>2. ~proc[j][launches[j]].group
    BY <1>1, <1>8 DEF MonitorExit, ChildGone, Child
  <2> HIDE DEF verdict
  <2> QED BY <1>5, <2>1, <2>2
<1>9. CASE MonitorTimeout(t) \/ MonitorWaitFails(t)
  <2>1. PICK final : th' = [th EXCEPT ![t] = [th[t] EXCEPT !.pc = "kill", !.final = final]]
    BY <1>9 DEF MonitorTimeout, MonitorWaitFails
  <2> QED BY <1>5, <2>1
<1>10. CASE MonitorDecide(t)
  <2>1. CASE row[j].state # "running"
    BY <1>1, <1>6, <1>10, <2>1 DEF MonitorDecide
  <2>2. CASE row[j].state = "running"
    <3> DEFINE final == ForcedState(row[j].hold, th[t].final)
               r == [th[t] EXCEPT !.pc = "commit", !.seen = TRUE, !.final = final]
    <3>1. r.pc = "commit" /\ r.job = j
      BY <1>0, <1>1 DEF Thread
    <3>2. th' = [th EXCEPT ![t] = r] /\ th[t].pc = "decide"
      BY <1>1, <1>10, <2>2 DEF MonitorDecide
    <3> HIDE DEF r
    <3>3. th'[t].pc = "commit" /\ th'[t].job = j
      BY <1>0, <3>1, <3>2, OthersStay
    <3>4. row[j].pg = launches[j]
      BY <2>2 DEF GroupsKnown, JobGroups
    <3>5. Begun(j)' /\ row'[j].pg # 0 /\ ~proc'[j][row'[j].pg].group
      BY <1>0, <1>2, <3>2, <3>4 DEF Begun
    <3> QED BY <3>3, <3>5 DEF KnowsGroup, Begun
  <2> QED BY <2>1, <2>2
<1> QED BY <1>7, <1>8, <1>9, <1>10 DEF Watching

\* A poller and recovery, outside of the lock, judge by receipts and pids.
LEMMA PollerKnows ==
  ASSUME NEW t \in Pollers \cup {Recovery}, t \notin locked',
         th'[t].pc \in FreePCs \cup {"kill", "commit"}
  PROVE  KnowsGroup(t)'
<1>1. (~OwnsChild(t) /\ ~Judges(t))'
  BY DEF OwnsChild, Judges, Pollers, Recovery
<1> QED BY <1>1 DEF KnowsGroup, FreePCs

LEMMA PollingGroups ==
  ASSUME TypeOK, Admission, GroupsKnown, NEW t \in Pollers \cup {Recovery}, Polling(t),
         ProbeAlive(t) => t # Recovery
  PROVE  KnowsGroup(t)'
<1>0. /\ t \in Threads /\ th[t] \in Thread /\ t \notin locked'
  BY ThreadNames, Known DEF TypeOK, Polling, Look, ProbeTimedOut, ProbeDead, ProbeAlive, HolderPCs,
     PassPCs
<1> SUFFICES th'[t].pc \in {"kill", "commit", "look", "probe", "each", "off"}
  BY <1>0, PollerKnows DEF FreePCs
<1>1. \A r : th' = [th EXCEPT ![t] = r] => th'[t] = r
  BY <1>0, OthersStay
<1>2. /\ \A pc, final, seen : [th[t] EXCEPT !.pc = pc, !.final = final, !.seen = seen].pc = pc
      /\ \A pc : [th[t] EXCEPT !.pc = pc].pc = pc
  BY <1>0 DEF Thread
<1>3. LookDone(t).pc \in {"each", "off"}
  BY DEF LookDone, Off, At
<1>4. ASSUME NEW pc \in {"kill", "commit", "look", "probe"}, NEW final, NEW seen,
             th' = [th EXCEPT ![t].pc = pc, ![t].final = final, ![t].seen = seen]
      PROVE  th'[t].pc = pc
  <2> DEFINE r == [th[t] EXCEPT !.pc = pc, !.final = final, !.seen = seen]
  <2>1. th' = [th EXCEPT ![t] = r]
    BY <1>4
  <2>2. r.pc = pc
    BY <1>2
  <2> HIDE DEF r
  <2> QED BY <1>1, <2>1, <2>2
<1>5. CASE Look(t)
  <2> DEFINE j == th[t].job
  <2>1. CASE row[j].state # "running"
    BY <1>1, <1>3, <1>5, <2>1 DEF Look
  <2>2. CASE row[j].state = "running" /\ row[j].hold # "none"
    <3>1. th' = [th EXCEPT ![t].pc = "kill", ![t].final = ForcedState(row[j].hold, "none"),
                           ![t].seen = TRUE]
      BY <1>5, <2>2 DEF Look
    <3> QED BY <1>4, <3>1
  <2>3. CASE row[j].state = "running" /\ row[j].hold = "none" /\ receipt[j] # "none"
    <3>1. th' = [th EXCEPT ![t].pc = "commit", ![t].final = Receipt(j), ![t].seen = TRUE]
      BY <1>5, <2>3 DEF Look
    <3> QED BY <1>4, <3>1
  <2>4. CASE row[j].state = "running" /\ row[j].hold = "none" /\ receipt[j] = "none"
    <3> DEFINE r == [th[t] EXCEPT !.pc = "probe"]
    <3>1. th' = [th EXCEPT ![t] = r]
      BY <1>5, <2>4 DEF Look, Goto
    <3>2. r.pc = "probe"
      BY <1>2
    <3> HIDE DEF r
    <3> QED BY <1>1, <3>1, <3>2
  <2> QED BY <2>1, <2>2, <2>3, <2>4
<1>6. CASE ProbeTimedOut(t)
  BY <1>4, <1>6 DEF ProbeTimedOut
<1>7. CASE ProbeDead(t)
  BY <1>4, <1>7 DEF ProbeDead
<1>8. CASE ProbeAlive(t)
  <2> DEFINE r == [th[t] EXCEPT !.pc = "look"]
  <2>1. th' = [th EXCEPT ![t] = r]
    BY <1>8 DEF ProbeAlive
  <2>2. r.pc = "look"
    BY <1>2
  <2> HIDE DEF r
  <2> QED BY <1>1, <2>1, <2>2
<1> QED BY <1>5, <1>6, <1>7, <1>8 DEF Polling

LEMMA RecoveringGroups ==
  ASSUME TypeOK, Reports, Admission, GroupsKnown, Recovering(Recovery)
  PROVE  GroupsKnown'
<1> DEFINE t == Recovery
<1>0. t \in Threads /\ th[t] \in Thread /\ Walks(t) /\ proc' = proc
  BY ThreadNames, RecoveringWalks
     DEF TypeOK, Recovering, RecoverSelect, RecoverNext, RecoverDone, RetryTick, Renotify,
         RenotifyDone, Restamp, osVars
<1>1. \A i \in Jobs : row'[i].pg = row[i].pg
  <2>1. CASE Restamp(t)
    <3>1. PICK j \in Jobs : j = th[t].job
      BY <1>0, <2>1 DEF Restamp, Thread, JobPCs
    <3>2. row' = [row EXCEPT ![j] = [row[j] EXCEPT !.notified = TRUE]]
      BY <2>1, <3>1 DEF Restamp
    <3>3. [row[j] EXCEPT !.notified = TRUE].pg = row[j].pg
      BY DEF TypeOK, Row
    <3> QED BY <3>2, <3>3 DEF TypeOK
  <2>2. CASE ~Restamp(t)
    BY <2>2 DEF Recovering, RecoverSelect, RecoverNext, RecoverDone, RetryTick, Renotify,
                RenotifyDone, dbVars
  <2> QED BY <2>1, <2>2
<1>2. th'[t].pc \in FreePCs
  <2>1. \A r : th' = [th EXCEPT ![t] = r] => th'[t] = r
    BY <1>0, OthersStay
  <2>2. ASSUME NEW pc \in FreePCs, NEW S, th' = [th EXCEPT ![t] = [At(pc) EXCEPT !.todo = S]]
        PROVE  th'[t].pc \in FreePCs
    <3> DEFINE r == [At(pc) EXCEPT !.todo = S]
    <3>1. r.pc = pc /\ th' = [th EXCEPT ![t] = r]
      BY <2>2 DEF At
    <3> HIDE DEF r
    <3> QED BY <2>1, <3>1
  <2>3. ASSUME NEW pc \in FreePCs, NEW j, NEW S,
               th' = [th EXCEPT ![t] = [AtJob(pc, j) EXCEPT !.todo = S]]
        PROVE  th'[t].pc \in FreePCs
    <3> DEFINE r == [AtJob(pc, j) EXCEPT !.todo = S]
    <3>1. r.pc = pc /\ th' = [th EXCEPT ![t] = r]
      BY <2>3 DEF At, AtJob
    <3> HIDE DEF r
    <3> QED BY <2>1, <3>1
  <2>4. ASSUME NEW pc \in FreePCs, th' = [th EXCEPT ![t] = At(pc)] PROVE th'[t].pc \in FreePCs
    BY <2>1, <2>4 DEF At
  <2>5. {"sleep", "restamp", "renotify", "look", "each", "lock"} \subseteq FreePCs
    BY DEF FreePCs
  <2>6. CASE Renotify(t)
    <3>1. PICK j \in Oldest(th[t].todo, Finished) :
             \/ th' = [th EXCEPT ![t] = [th[t] EXCEPT !.todo = th[t].todo \ {j}]]
             \/ th' = [th EXCEPT ![t] = [AtJob("restamp", j) EXCEPT !.todo = th[t].todo \ {j}]]
             \/ th' = [th EXCEPT ![t] = At("sleep")]
      BY <2>6 DEF Renotify
    <3> DEFINE r == [th[t] EXCEPT !.todo = th[t].todo \ {j}]
    <3>2. r.pc = "renotify"
      BY <1>0, <2>6 DEF Renotify, Thread
    <3>3. CASE th' = [th EXCEPT ![t] = r]
      <4> HIDE DEF r
      <4> QED BY <2>1, <2>5, <3>2, <3>3
    <3> QED BY <2>3, <2>4, <2>5, <3>1, <3>3
  <2>7. CASE RecoverNext(t)
    BY <2>3, <2>5, <2>7 DEF RecoverNext
  <2>8. CASE RecoverSelect(t) \/ RecoverDone(t) \/ RetryTick(t) \/ RenotifyDone(t) \/ Restamp(t)
    BY <2>2, <2>4, <2>5, <2>8 DEF RecoverSelect, RecoverDone, RetryTick, RenotifyDone, Restamp
  <2> QED BY <2>6, <2>7, <2>8 DEF Recovering
<1> QED BY <1>0, <1>1, <1>2, FreeKnows, WalkGroups

\* Processes end: wrappers stop, groups drain.
LEMMA EnvironmentGroups ==
  ASSUME TypeOK, GroupsKnown, Environment
  PROVE  GroupsKnown'
<1>1. UNCHANGED <<row, launches, th, locked>>
  BY DEF Environment, WrapperExits, WrapperDies, GroupDrains, LogGrows, CooldownElapses, dbVars,
         osVars, srvVars
<1>2. ASSUME NEW j \in Jobs, NEW k \in Launches, NEW x, proc' = [proc EXCEPT ![j][k] = x],
             x.wrapper # "run", x.group => proc[j][k].group
      PROVE  \A i \in Jobs, l \in Launches :
               /\ proc'[i][l].group => proc[i][l].group
               /\ proc'[i][l] = proc[i][l] \/ proc'[i][l].wrapper # "run"
  <2>1. /\ proc'[j][k] = x
        /\ \A i \in Jobs, l \in Launches : <<i, l>> # <<j, k>> => proc'[i][l] = proc[i][l]
    BY <1>2 DEF TypeOK
  <2> QED BY <1>2, <2>1
<1>3. \A i \in Jobs, l \in Launches :
        /\ proc'[i][l].group => proc[i][l].group
        /\ proc'[i][l] = proc[i][l] \/ proc'[i][l].wrapper # "run"
  <2>1. ASSUME NEW j \in Jobs, NEW k \in Launches,
               WrapperExits(j, k) \/ WrapperDies(j, k) \/ GroupDrains(j, k)
        PROVE  \E x : /\ proc' = [proc EXCEPT ![j][k] = x] /\ x.wrapper # "run"
                      /\ x.group => proc[j][k].group
    <3>0. proc[j][k] \in Process /\ (proc[j][k].wrapper = "run" => proc[j][k].group)
      BY DEF TypeOK, GroupsKnown, JobGroups
    <3>1. CASE WrapperExits(j, k)
      <4>1. PICK code \in ExitCodes, g \in Leftover(j) :
              proc' = [proc EXCEPT ![j][k] = [wrapper |-> code, group |-> g]]
        BY <3>1 DEF WrapperExits
      <4>2. [wrapper |-> code, group |-> g].wrapper # "run" /\ proc[j][k].group
        BY <3>0, <3>1, <4>1, QueueAssumption DEF WrapperExits
      <4> QED BY <4>1, <4>2
    <3>2. CASE WrapperDies(j, k)
      <4>1. PICK g \in Leftover(j) :
              proc' = [proc EXCEPT ![j][k] = [wrapper |-> "killed", group |-> g]]
        BY <3>2 DEF WrapperDies
      <4>2. [wrapper |-> "killed", group |-> g].wrapper # "run" /\ proc[j][k].group
        BY <3>0, <3>2 DEF WrapperDies
      <4> QED BY <4>1, <4>2
    <3>3. CASE GroupDrains(j, k)
      <4> DEFINE x == [proc[j][k] EXCEPT !.group = FALSE]
      <4>1. proc' = [proc EXCEPT ![j][k] = x]
        BY <3>3 DEF GroupDrains
      <4>2. x.wrapper # "run" /\ proc[j][k].group
        BY <3>0, <3>3 DEF GroupDrains, Process
      <4> QED BY <4>1, <4>2
    <3> QED BY <2>1, <3>1, <3>2, <3>3
  <2>2. CASE proc' = proc
    BY <2>2
  <2> QED BY <1>2, <2>1, <2>2 DEF Environment, LogGrows, CooldownElapses, osVars
<1>4. Persists
  BY <1>1, <1>3 DEF Persists, Begun
<1>5. \A j \in Jobs : JobGroups(j)'
  BY <1>1, <1>3 DEF GroupsKnown, JobGroups
<1> QED BY <1>1, <1>4, <1>5, GroupsStep

LEMMA RequestsGroups ==
  ASSUME TypeOK, Admission, GroupsKnown, NEW j \in Jobs, CreateJob(j) \/ CancelRead(j)
  PROVE  GroupsKnown'
<1>0. UNCHANGED <<proc, launches, locked>>
  BY DEF CreateJob, CancelRead, osVars
<1>1. CASE CreateJob(j)
  <2> DEFINE t == <<"create", j>>
             new == [row[j] EXCEPT !.state = "pending", !.queued = NextRank(Queued, Jobs)]
  <2>1. /\ t \in Threads /\ th' = [th EXCEPT ![t] = At("lock")]
        /\ row' = [row EXCEPT ![j] = new] /\ row[j].state = "absent"
    BY <1>1, ThreadNames DEF CreateJob
  <2>2. new.state = "pending" /\ new.pg = row[j].pg
    BY DEF TypeOK, Row
  <2> HIDE DEF t, new
  <2>3. row'[j] = new /\ \A i \in Jobs : i # j => row'[i] = row[i]
    BY <2>1 DEF TypeOK
  <2>4. Persists
    BY <1>0, <2>1, <2>3 DEF Persists, Begun
  <2>5. \A i \in Jobs : JobGroups(i)'
    BY <1>0, <2>2, <2>3 DEF GroupsKnown, JobGroups
  <2>6. At("lock").pc \in FreePCs
    BY DEF At, FreePCs
  <2>7. KnowsGroup(t)'
    BY <2>1, <2>6, FreeKnows, OthersStay
  <2>8. \A u \in Threads : u # t => th'[u] = th[u]
    BY <2>1, OthersStay
  <2> QED BY <1>0, <2>4, <2>5, <2>7, <2>8, GroupsStep
<1>2. CASE CancelRead(j)
  <2> DEFINE t == <<"cancel", j>>
             live == row[j].state = "running"
             r == [AtJob(IF live THEN "cmark" ELSE "commit", j)
                     EXCEPT !.final = "cancelled", !.seen = live]
  <2>1. r.pc = (IF live THEN "cmark" ELSE "commit") /\ r.job = j /\ r.seen = live
    BY DEF At, AtJob
  <2>2. t \in Threads /\ th' = [th EXCEPT ![t] = r] /\ row' = row
    BY <1>2, ThreadNames DEF CancelRead, dbVars
  <2>3. Walks(t)
    BY <1>2, CancelWalks
  <2> HIDE DEF r, t
  <2>4. th'[t] = r
    BY <2>2, OthersStay
  <2>5. live => Begun(j)' /\ row'[j].pg # 0
    BY <2>2 DEF GroupsKnown, JobGroups, Begun
  <2>6. KnowsGroup(t)'
    <3>1. CASE live
      <4>1. th'[t].pc = "cmark" /\ th'[t].job = j
        BY <2>1, <2>4, <3>1
      <4> QED BY <2>5, <3>1, <4>1 DEF KnowsGroup, Begun
    <3>2. CASE ~live
      <4>1. th'[t].pc = "commit" /\ ~th'[t].seen
        BY <2>1, <2>4, <3>2
      <4> QED BY <4>1 DEF KnowsGroup
    <3> QED BY <3>1, <3>2
  <2> QED BY <1>0, <2>2, <2>3, <2>6, WalkGroups
<1> QED BY <1>1, <1>2

LEMMA FailureGroups ==
  ASSUME TypeOK, Admission, GroupsKnown, Failure
  PROVE  GroupsKnown'
<1>0. UNCHANGED <<row, proc, launches>>
  BY DEF Failure, NotifyFails, StartFails, MonitorWaitFails, RenotifyFails, Crash, dbVars, osVars
<1>1. RowsClose
  BY <1>0, RowsSame
<1>2. CASE Crash
  <2>1. \A u \in Threads : th'[u].pc \in FreePCs
    BY <1>2 DEF Crash, Off, At, FreePCs
  <2>2. \A u \in Threads : KnowsGroup(u)'
    BY <2>1, FreeKnows
  <2> QED BY <1>0, <1>1, <2>2, CalmJobs, GroupsStep
<1>3. ASSUME NEW t \in Threads, NotifyFails(t) PROVE GroupsKnown'
  <2>1. FinishFailed(t) /\ KnowsGroup(t)'
    BY <1>3, EndKnows DEF NotifyFails
  <2>2. Others(t) /\ locked' \ {t} = locked \ {t}
    BY <2>1, OthersStay DEF Others, FinishFailed, Resume, Abort
  <2> QED BY <1>0, <1>1, <2>1, <2>2, MoveGroups
<1>4. ASSUME NEW t \in Threads, StartFails(t) PROVE GroupsKnown'
  <2> DEFINE r == [th[t] EXCEPT !.pc = "commit", !.final = "failed"]
  <2>1. th' = [th EXCEPT ![t] = r] /\ th[t].pc = "start" /\ locked' = locked
    BY <1>4 DEF StartFails
  <2>2. r.pc = "commit" /\ r.seen = th[t].seen
    BY DEF TypeOK, Thread
  <2>3. ~th[t].seen
    BY <2>1 DEF GroupsKnown, KnowsGroup
  <2> HIDE DEF r
  <2>4. th'[t] = r /\ Others(t)
    BY <2>1, OthersStay DEF Others
  <2>5. KnowsGroup(t)'
    BY <2>2, <2>3, <2>4 DEF KnowsGroup
  <2> QED BY <1>0, <1>1, <2>1, <2>4, <2>5, MoveGroups
<1>5. ASSUME NEW t \in Monitors, MonitorWaitFails(t) PROVE GroupsKnown'
  <2> DEFINE r == [th[t] EXCEPT !.pc = "kill", !.final = "failed"]
  <2>1. t \in Threads /\ th' = [th EXCEPT ![t] = r] /\ locked' = locked
    BY <1>5, ThreadNames DEF MonitorWaitFails
  <2> HIDE DEF r
  <2>2. Others(t)
    BY <2>1, OthersStay DEF Others
  <2> QED BY <1>0, <1>1, <1>5, <2>1, <2>2, WatchingGroups, MoveGroups
<1>6. CASE RenotifyFails(Recovery)
  <2>1. th' = [th EXCEPT ![Recovery] = At("sleep")] /\ locked' = locked
    BY <1>6 DEF RenotifyFails
  <2>2. At("sleep").pc \in FreePCs
    BY DEF At, FreePCs
  <2>3. KnowsGroup(Recovery)' /\ Others(Recovery)
    BY <2>1, <2>2, ThreadNames, FreeKnows, OthersStay DEF Others
  <2> QED BY <1>0, <1>1, <2>1, <2>3, ThreadNames, MoveGroups
<1> QED BY <1>2, <1>3, <1>4, <1>5, <1>6 DEF Failure

LEMMA GroupsKnownStep == Step /\ GroupsKnown => GroupsKnown'
<1> SUFFICES ASSUME Step, GroupsKnown PROVE GroupsKnown'
  OBVIOUS
<1>0. TypeOK /\ Reports /\ Admission
  BY DEF Step, Inv
<1>1. ASSUME NEW t \in Monitors, Watching(t) PROVE GroupsKnown'
  <2>1. t \in Threads /\ Walks(t) /\ KnowsGroup(t)'
    BY <1>0, <1>1, ThreadNames, WatchingWalks, WatchingGroups
  <2>2. row' = row /\ proc' = proc
    BY <1>1 DEF Watching, MonitorCancelled, MonitorExit, MonitorTimeout, MonitorDecide, dbVars, osVars
  <2> QED BY <1>0, <2>1, <2>2, WalkGroups
<1>2. ASSUME NEW t \in Pollers \cup {Recovery}, Polling(t) PROVE GroupsKnown'
  <2>1. row' = row /\ proc' = proc /\ launches' = launches /\ locked' = locked
    BY <1>2 DEF Polling, Look, ProbeTimedOut, ProbeDead, ProbeAlive, dbVars, osVars
  <2>2. CASE ProbeAlive(t) => t # Recovery
    <3>1. t \in Threads /\ Walks(t) /\ KnowsGroup(t)'
      BY <1>0, <1>2, <2>2, ThreadNames, PollingWalks, PollingGroups
    <3> QED BY <1>0, <2>1, <3>1, WalkGroups
  <2>3. CASE ProbeAlive(t) /\ t = Recovery
    <3>1. PICK j \in Jobs : j = th[t].job
      BY <1>0, <2>3, ThreadNames DEF ProbeAlive, TypeOK, Thread, JobPCs
    <3> DEFINE p == <<"poller", j>>
    <3>2. th' = [th EXCEPT ![t] = LookDone(t), ![p] = AtJob("look", j)]
      BY <2>3, <3>1 DEF ProbeAlive
    <3>3. LookDone(t).pc \in FreePCs /\ AtJob("look", j).pc \in FreePCs
      BY DEF LookDone, Off, At, AtJob, FreePCs
    <3>4. t \in Threads /\ p \in Threads
      BY ThreadNames
    <3> HIDE DEF p
    <3>5. /\ \A u \in {t, p} : th'[u].pc \in FreePCs
          /\ \A u \in Threads : u \notin {t, p} => th'[u] = th[u]
      BY <1>0, <3>2, <3>3, <3>4 DEF TypeOK
    <3>6. KnowsGroup(t)' /\ KnowsGroup(p)'
      BY <3>4, <3>5, FreeKnows
    <3> QED BY <1>0, <2>1, <3>5, <3>6, RowsSame, CalmJobs, GroupsStep
  <2> QED BY <2>2, <2>3
<1>3. CASE TimerFires
  <2>1. /\ th' = [th EXCEPT ![Timer] = At("lock")] /\ locked' = locked
        /\ UNCHANGED <<row, proc, launches>>
    BY <1>3 DEF TimerFires, dbVars, osVars
  <2>2. At("lock").pc \in FreePCs
    BY DEF At, FreePCs
  <2>3. KnowsGroup(Timer)' /\ Others(Timer)
    BY <1>0, <2>1, <2>2, ThreadNames, FreeKnows, OthersStay DEF Others
  <2> QED BY <1>0, <2>1, <2>3, ThreadNames, RowsSame, MoveGroups
<1>4. CASE UNCHANGED vars
  <2>1. UNCHANGED <<row, proc, launches, th, locked>>
    BY <1>4 DEF vars
  <2> QED BY <1>0, <2>1, RowsSame, CalmJobs, GroupsStep
<1> QED BY <1>0, <1>1, <1>2, <1>3, <1>4, EnvironmentGroups, RequestsGroups, FailureGroups,
           FinishingGroups, AdmittingGroups, RecoveringGroups DEF Step, Next, Requests, ServerStep

LEMMA GroupsKnownInit == Init => GroupsKnown
<1> SUFFICES ASSUME Init PROVE GroupsKnown
  OBVIOUS
<1>1. \A t \in Threads : th[t].pc \in {"off", "sleep"}
  BY DEF Init, Off, At
<1>2. \A t \in Threads : KnowsGroup(t)
  BY <1>1 DEF KnowsGroup
<1>3. \A j \in Jobs : JobGroups(j)
  BY DEF Init, JobGroups, NoRow, NoProcess
<1> QED BY <1>2, <1>3 DEF GroupsKnown

-----------------------------------------------------------------------------
(* Theorems *)

\* The runner implements the ledger its requesters see, for any number of jobs,
\* crashes and faults: the rows and the mailbox move only as JobLedger allows.
THEOREM LedgerImplemented == Spec => ImplementsLedger
<1>1. Inv /\ Admission /\ [Next]_vars => [Ledger!LedgerNext]_(Ledger!ledger)
  BY LedgerStep DEF Step
<1> QED BY <1>1, LedgerStarts, InvInit, InvStep, AdmissionInit, AdmissionStep, PTL
        DEF Spec, ImplementsLedger, Ledger!LedgerSpec

\* Until a fault, every running job has a monitor, a poller or recovery that sees to
\* it, for any number of jobs and crashes and whatever becomes of the other jobs.
THEOREM RunningIsWatched == Spec => []Supervised
<1>1. AllWatched => Supervised
  BY DEF AllWatched, WatchedBy, Watchers, Supervised, Handles
<1>2. Inv /\ Admission /\ OneReporter /\ AllWatched /\ [Next]_vars => OneReporter' /\ AllWatched'
  BY ReporterStep, WatchStep DEF Step
<1> QED BY <1>1, <1>2, WatchInit, InvInit, InvStep, AdmissionInit, AdmissionStep, PTL DEF Spec

\* A verdict of a monitor, of a cancellation that read a running row or of a
\* displacement is committed only when the job's process group is gone, for any number
\* of jobs and launches and whatever the processes do.
THEOREM VerdictsWait == Spec => VerdictWaitsForGroup
<1> DEFINE Waits ==
      \A t \in Threads :
        LET j == th[t].job
        IN  (th[t].pc = "commit" /\ th'[t].pc = "notify"
               /\ (t \in locked \/ t \notin Pollers \cup {Recovery}) /\ th[t].seen)
              => row[j].pg # 0 /\ ~proc[j][row[j].pg].group
<1>1. GroupsKnown => Waits
  BY DEF GroupsKnown, KnowsGroup, Judges
<1>2. Inv /\ Admission /\ GroupsKnown /\ [Next]_vars => GroupsKnown'
  BY GroupsKnownStep DEF Step
<1>3. Inv /\ Admission /\ GroupsKnown /\ [Next]_vars => [Waits]_vars
  BY <1>1
<1> HIDE DEF Waits
<1>4. Spec => [][Waits]_vars
  BY <1>2, <1>3, GroupsKnownInit, InvInit, InvStep, AdmissionInit, AdmissionStep, PTL DEF Spec
<1> QED BY <1>4 DEF Waits, VerdictWaitsForGroup

=============================================================================
