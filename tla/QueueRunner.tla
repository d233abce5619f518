---------------------------- MODULE QueueRunner ----------------------------
(***************************************************************************)
(* The managed queue runner of sm-server (crates/sm-server/src/queue.rs):  *)
(* a durable table of jobs, the operating-system process group behind      *)
(* every started job, and the threads of the server that admit, watch,     *)
(* cancel, displace, time out, recover and report those jobs.              *)
(*                                                                         *)
(* One SQL statement, one signal, one process spawn and one file probe are *)
(* one step each; everything a thread remembers between two of them is in  *)
(* th[t].  A crash of the server forgets every thread and keeps the two    *)
(* databases, the receipt files and the processes.                         *)
(***************************************************************************)
EXTENDS Integers, FiniteSets

CONSTANTS
  Jobs,         \* job ids
  NoJob,        \* a value that is not a job id
  JobType,      \* the type each job is submitted with
  Untimed,      \* jobs submitted with timeout 0 (never timed out)
  ExitCodes,    \* bound: how commands end, "ok" (exit 0) or "bad"
  Unruly,       \* bound: jobs whose wrapper may die by itself and whose
                \* group may outlive its wrapper
  Cancellable,  \* bound: jobs that somebody cancels
  Policies,     \* admission configurations a server start may read
  MaxLaunches,  \* bound: processes ever spawned for one job
  MaxCrashes,   \* bound: server crashes
  MaxFaults,    \* bound: failed spawns, failed waits and failed enqueues
  MaxLog        \* bound: growth of a job's log file that is told apart

Types == {"perf", "tests", "background", "service"}

Policy == [max: Nat, cap: [Types -> Nat], cooldown: BOOLEAN]

ASSUME QueueAssumption ==
  /\ IsFiniteSet(Jobs) /\ NoJob \notin Jobs
  /\ JobType \in [Jobs -> Types]
  /\ Untimed \subseteq {j \in Jobs : JobType[j] = "background"}
  /\ ExitCodes \subseteq {"ok", "bad"}
  /\ Unruly \subseteq Jobs /\ Cancellable \subseteq Jobs
  /\ Policies # {} /\ Policies \subseteq Policy
  /\ MaxLaunches \in Nat /\ MaxCrashes \in Nat /\ MaxFaults \in Nat /\ MaxLog \in Nat

VARIABLES
  row,       \* queue_jobs table of queue_runner.db
  proc,      \* process groups, one per job and launch
  launches,  \* number of processes spawned for a job
  receipt,   \* the job's exit.code file
  log,       \* the job's log file, as far as its tail can be told apart
  msg,       \* row queue-completion-<job> of message_queue.db
  th,        \* what each server thread is doing
  locked,    \* threads inside QUEUE_ADMISSION_LOCK
  asleep,    \* does a scheduled admission retry sleep?
  policy,    \* QueueAdmissionPolicy of this server start
  cool,      \* is the last perf/tests completion within the cooldown window?
  faults,    \* environment faults so far
  crashes    \* server crashes so far

dbVars   == <<row, msg>>
osVars   == <<proc, launches, receipt, log>>
srvVars  == <<th, locked, asleep>>
envVars  == <<policy, faults, crashes>>
vars     == <<row, proc, launches, receipt, log, msg, th, locked, asleep,
              policy, cool, faults, crashes>>

-----------------------------------------------------------------------------
(* Rows, processes and threads *)

Terminal == {"succeeded", "failed", "timed_out", "cancelled", "displaced"}
States   == {"absent", "pending", "running"} \cup Terminal

Launches == 1 .. MaxLaunches

\* Holding reasons of pending rows only explain a wait to `sm queue status';
\* the two reasons that steer the code are kept.  completion_notification_required
\* is 1 on every row this server finishes and is left out.  The three times are
\* ranks: only their order within a column matters (started_at: within a type).
Row == [state: States, hold: {"none", "cancelling", "displacing"},
        pg: {0} \cup Launches, queued: Nat, started: Nat, finished: Nat,
        notified: BOOLEAN]

NoRow == [state |-> "absent", hold |-> "none", pg |-> 0, queued |-> 0,
          started |-> 0, finished |-> 0, notified |-> FALSE]

\* The wrapper run.zsh and the rest of its process group.
Process == [wrapper: {"none", "run", "ok", "bad", "killed"}, group: BOOLEAN]
NoProcess == [wrapper |-> "none", group |-> FALSE]

\* Text of a completion message: the verdict, whether the writer's snapshot
\* of the row had a start time, and the log tail it read.
Text  == [state: Terminal, seen: BOOLEAN, tail: 0 .. MaxLog]
NoMsg == [state |-> "none"]

Kinds    == {"create", "cancel", "monitor", "poller"}
Timer    == <<"timer", NoJob>>
Recovery == <<"recovery", NoJob>>
Threads  == (Kinds \X Jobs) \cup {Timer, Recovery}

PCs == {"off", "lock", "scan", "start", "mark", "dmark", "cmark", "watch",
        "look", "probe", "kill", "decide", "commit", "notify", "stamp",
        "select", "each", "sleep", "renotify", "restamp"}

\* Program points at which a thread works on a job, and those at which it also
\* has a verdict in mind
JobPCs     == {"start", "mark", "watch", "look", "probe", "restamp"}
VerdictPCs == {"dmark", "cmark", "kill", "decide", "commit", "notify", "stamp"}

Thread ==
  {r \in [pc: PCs, job: Jobs \cup {NoJob}, final: Terminal \cup {"none"},
          seen: BOOLEAN, retry: BOOLEAN, todo: SUBSET Jobs] :
     /\ r.pc \in JobPCs \cup VerdictPCs => r.job \in Jobs
     /\ r.pc \in VerdictPCs => r.final \in Terminal}

At(pc)    == [pc |-> pc, job |-> NoJob, final |-> "none", seen |-> FALSE,
              retry |-> FALSE, todo |-> {}]
Off       == At("off")
AtJob(pc, j) == [At(pc) EXCEPT !.job = j]

Goto(t, pc) == th' = [th EXCEPT ![t].pc = pc]

\* is_terminal_queue_state and the WHERE clause of finish_queue_job_conn
IsTerminal(j) == row[j].state \in Terminal

\* Mutant: the state to use otherwise is forgotten.
ForcedStateOnly(hold, otherwise) ==
  CASE hold = "cancelling" -> "cancelled"
    [] hold = "displacing" -> "displaced"
    [] OTHER               -> "none"

\* forced_terminal_state_for_holding_reason, with the state to use otherwise
ForcedState(hold, otherwise) ==
  CASE hold = "cancelling" -> "cancelled"
    [] hold = "displacing" -> "displaced"
    [] OTHER               -> otherwise

TypeOK ==
  /\ row \in [Jobs -> Row]
  /\ proc \in [Jobs -> [Launches -> Process]]
  /\ launches \in [Jobs -> 0 .. MaxLaunches]
  /\ receipt \in [Jobs -> {"none", "ok", "bad"}]
  /\ log \in [Jobs -> 0 .. MaxLog]
  /\ msg \in [Jobs -> Text \cup {NoMsg}]
  /\ th \in [Threads -> Thread]
  /\ locked \in SUBSET Threads
  /\ asleep \in BOOLEAN
  /\ policy \in Policies
  /\ cool \in BOOLEAN
  /\ faults \in 0 .. MaxFaults
  /\ crashes \in 0 .. MaxCrashes

\* The first start on a new state directory: recovery has found no database.
Init ==
  /\ row = [j \in Jobs |-> NoRow]
  /\ proc = [j \in Jobs |-> [k \in Launches |-> NoProcess]]
  /\ launches = [j \in Jobs |-> 0]
  /\ receipt = [j \in Jobs |-> "none"]
  /\ log = [j \in Jobs |-> 0]
  /\ msg = [j \in Jobs |-> NoMsg]
  /\ th = [t \in Threads |-> IF t = Recovery THEN At("sleep") ELSE Off]
  /\ locked = {}
  /\ asleep = FALSE
  /\ policy \in Policies
  /\ cool = FALSE
  /\ faults = 0
  /\ crashes = 0

-----------------------------------------------------------------------------
(* The processes.  The wrapper runs the command, writes its exit code to    *)
(* exit.code and exits; members of its group may outlive it.                *)

\* What remains of a group when its wrapper is gone
Leftover(j) == IF j \in Unruly THEN BOOLEAN ELSE {FALSE}

\* The command ends, its exit code is printed to exit.code and the wrapper exits.
WrapperExits(j, k) ==
  /\ proc[j][k].wrapper = "run"
  /\ \E code \in ExitCodes, g \in Leftover(j) :
       /\ proc' = [proc EXCEPT ![j][k] = [wrapper |-> code, group |-> g]]
       /\ receipt' = [receipt EXCEPT ![j] = code]
  /\ UNCHANGED <<dbVars, launches, log, srvVars, envVars, cool>>

\* Does t watch its own child?  (A monitor that displaces another job inside an
\* admission pass does not.)
OwnsChild(t) == t[1] = "monitor" /\ t \notin locked

\* The process group that thread t terminates
Group(t) == LET j == th[t].job
            IN  IF OwnsChild(t) THEN launches[j] ELSE row[j].pg

Signalled(j, k) == \E t \in Threads : th[t].pc = "kill" /\ th[t].job = j /\ Group(t) = k

\* The wrapper dies without writing a receipt: by a signal of the server, or by
\* itself (a signal from outside, the early `cd || exit 127').
WrapperDies(j, k) ==
  /\ proc[j][k].wrapper = "run"
  /\ j \in Unruly \/ Signalled(j, k)
  /\ \E g \in Leftover(j) :
       proc' = [proc EXCEPT ![j][k] = [wrapper |-> "killed", group |-> g]]
  /\ UNCHANGED <<dbVars, launches, receipt, log, srvVars, envVars, cool>>

\* The last member that outlived the wrapper ends.
GroupDrains(j, k) ==
  /\ proc[j][k].group /\ proc[j][k].wrapper # "run"
  /\ proc' = [proc EXCEPT ![j][k].group = FALSE]
  /\ UNCHANGED <<dbVars, launches, receipt, log, srvVars, envVars, cool>>

LogGrows(j) ==
  /\ log[j] < MaxLog
  /\ \E k \in Launches : proc[j][k].group
  /\ log' = [log EXCEPT ![j] = @ + 1]
  /\ UNCHANGED <<dbVars, proc, launches, receipt, srvVars, envVars, cool>>

CooldownElapses ==
  /\ cool
  /\ cool' = FALSE
  /\ UNCHANGED <<dbVars, osVars, srvVars, envVars>>

-----------------------------------------------------------------------------
(* What an admission pass reads: list_queue_job_runtime_records_conn        *)

Pending(type) == {j \in Jobs : row[j].state = "pending" /\ JobType[j] = type}
Running(type) == {j \in Jobs : row[j].state = "running" /\ JobType[j] = type}
AllPending    == {j \in Jobs : row[j].state = "pending"}
AllRunning    == {j \in Jobs : row[j].state = "running"}

\* Members of a set of jobs with the smallest rank in a column
Oldest(S, rank) == {j \in S : \A i \in S : rank[j] <= rank[i]}
Queued   == [j \in Jobs |-> row[j].queued]
Started  == [j \in Jobs |-> row[j].started]
Finished == [j \in Jobs |-> row[j].finished]
NextRank(rank, S) == Cardinality({j \in S : rank[j] # 0}) + 1
OfType(type) == {j \in Jobs : JobType[j] = type}

\* perf_cooldown_remaining_seconds is Some
Cooling == policy.cooldown /\ cool

\* perf_blocked_by_tests_after_perf: the latest finished perf or tests job is
\* a perf job and some tests job is pending or running
TestsTurn ==
  /\ \E p \in Jobs : /\ JobType[p] = "perf" /\ row[p].finished # 0
                     /\ \A j \in Jobs : JobType[j] \in {"perf", "tests"} =>
                          row[j].finished <= row[p].finished
  /\ Pending("tests") \cup Running("tests") # {}

\* ensure_service_capacity_reserve_before_admission.  Its second test (services
\* plus the reserve fit the global capacity) follows from the first.
ServiceReserveHolds ==
  /\ policy.cap["service"] < policy.max \/ policy.cap["service"] = 0
  /\ Cardinality(Running("service")) <= policy.cap["service"]

\* The two tests of a waiting perf job that end a pass
PerfWaiting == Pending("perf") # {} /\ ~TestsTurn

\* Mutant: background work is displaced only where it takes the last slot.
DisplacesWhenFull ==
  /\ Pending("perf") # {}
  /\ ~Cooling /\ ~TestsTurn
  /\ Running("tests") = {} /\ Running("background") # {}
  /\ Cardinality(AllRunning) >= policy.max

\* displace_background_for_perf_conn up to its first write
Displaces ==
  /\ Pending("perf") # {}
  /\ Cardinality(Running("perf")) < policy.cap["perf"]
  /\ ~Cooling /\ ~TestsTurn
  /\ Running("tests") = {}
  /\ Running("background") # {}

\* The `break's of admit_pending_queue_jobs_conn before a candidate is chosen
PassHeld ==
  \/ AllPending = {}
  \/ Running("perf") # {}
  \/ PerfWaiting /\ (Running("tests") # {} \/ Cooling)
PassFull == Cardinality(AllRunning) >= policy.max

\* Mutant: off by one at the cap.
AdmissibleOneMore(type) ==
  /\ Pending(type) # {}
  /\ Cardinality(Running(type)) <= policy.cap[type]
  /\ type = "perf" => ~Cooling /\ ~TestsTurn

\* next_admissible_queue_job_id_conn: a type it does not `continue' past
Admissible(type) ==
  /\ Pending(type) # {}
  /\ Cardinality(Running(type)) < policy.cap[type]
  /\ type = "perf" => ~Cooling /\ ~TestsTurn

\* QUEUE_JOB_TYPE_ORDER
TypeRank == [type \in Types |-> CASE type = "perf" -> 1 [] type = "tests" -> 2
                                  [] type = "background" -> 3 [] OTHER -> 4]

\* A pass asks for a retry after the cooldown where a perf job waits for it.
HeldForCooldown == /\ Running("perf") = {} /\ Running("tests") = {}
                   /\ PerfWaiting /\ Cooling
SkipsCoolingPerf == /\ Pending("perf") # {} /\ Cooling
                    /\ Cardinality(Running("perf")) < policy.cap["perf"]

-----------------------------------------------------------------------------
(* Ends of a thread's work *)

Ended(t) == IF t = Recovery THEN At("sleep") ELSE Off

\* The Err path of admit_pending_queue_jobs_conn and of its callers: the guard
\* is dropped and nothing more is done.
Abort(t) ==
  /\ th' = [th EXCEPT ![t] = Ended(t)]
  /\ locked' = locked \ {t}
  /\ UNCHANGED asleep

\* Mutant: the retry after the cooldown is not scheduled.
EndPassNoRetry(t, retry) ==
  /\ th' = [th EXCEPT ![t] = Ended(t)]
  /\ locked' = locked \ {t}
  /\ UNCHANGED asleep

\* The end of the pass, with schedule_queue_admission_retry.
EndPass(t, retry) ==
  /\ th' = [th EXCEPT ![t] = Ended(t)]
  /\ locked' = locked \ {t}
  /\ asleep' = (asleep \/ retry)

\* After finish_queue_job_conn returned Ok: inside a pass the loop goes on,
\* recovery takes the next job, the others admit pending jobs.
AfterFinish(t) ==
  CASE t \in locked -> [At("scan") EXCEPT !.retry = th[t].retry]
    [] t = Recovery /\ t \notin locked -> [At("each") EXCEPT !.todo = th[t].todo]
    [] OTHER        -> At("lock")

Resume(t) == th' = [th EXCEPT ![t] = AfterFinish(t)] /\ UNCHANGED <<locked, asleep>>

\* After it returned Err.  A failed start is counted and the pass goes on, a
\* poller ignores the error of its own job; every other caller returns it, without
\* admission.
FinishFailed(t) ==
  IF IF t \in locked THEN th[t].final = "failed" ELSE t[1] = "poller"
    THEN Resume(t)
    ELSE Abort(t)

-----------------------------------------------------------------------------
(* Submitting and cancelling *)

\* POST /queue-jobs: one INSERT, then an admission pass by the same thread.
CreateJob(j) ==
  /\ row[j].state = "absent"
  /\ row' = [row EXCEPT ![j].state = "pending", ![j].queued = NextRank(Queued, Jobs)]
  /\ th' = [th EXCEPT ![<<"create", j>>] = At("lock")]
  /\ UNCHANGED <<osVars, msg, locked, asleep, envVars, cool>>

\* DELETE /queue-jobs/{id} reads the row; what it saw decides its path.
CancelRead(j) ==
  /\ j \in Cancellable
  /\ row[j].state \in {"pending", "running"}
  /\ th[<<"cancel", j>>].pc = "off"
  /\ LET live == row[j].state = "running"
     IN  th' = [th EXCEPT ![<<"cancel", j>>] =
                  [AtJob(IF live THEN "cmark" ELSE "commit", j)
                     EXCEPT !.final = "cancelled", !.seen = live]]
  /\ UNCHANGED <<dbVars, osVars, locked, asleep, envVars, cool>>

\* mark_queue_job_cancelling_conn, mark_queue_job_displacing_conn
MarkHold(t, pc, hold) ==
  /\ th[t].pc = pc
  /\ row' = IF row[th[t].job].state = "running"
              THEN [row EXCEPT ![th[t].job].hold = hold] ELSE row
  /\ Goto(t, "kill")
  /\ UNCHANGED <<osVars, msg, locked, asleep, envVars, cool>>

CancelMark(t)   == MarkHold(t, "cmark", "cancelling")
DisplaceMark(t) == MarkHold(t, "dmark", "displacing")

-----------------------------------------------------------------------------
(* terminate_process_group_with_grace and the end of a job *)

\* Mutant: a verdict follows the signal at once.
TerminateNoWait(t) ==
  /\ th[t].pc = "kill"
  /\ Goto(t, IF OwnsChild(t) THEN "decide" ELSE "commit")
  /\ UNCHANGED <<dbVars, osVars, locked, asleep, envVars, cool>>

\* SIGTERM, SIGKILL after the grace period, and a wait for the group to be gone
Terminate(t) ==
  /\ th[t].pc = "kill"
  /\ Group(t) = 0 \/ ~proc[th[t].job][Group(t)].group
  /\ Goto(t, IF OwnsChild(t) THEN "decide" ELSE "commit")
  /\ UNCHANGED <<dbVars, osVars, locked, asleep, envVars, cool>>

\* A group that some thread signals does not survive.
SignalledGroupEnds(j, k) == Signalled(j, k) /\ (WrapperDies(j, k) \/ GroupDrains(j, k))

\* Mutant: the UPDATE has no guard on the state.
CommitUnguarded(t) ==
  /\ th[t].pc = "commit"
  /\ LET j == th[t].job
     IN  /\ row' = [row EXCEPT ![j].state = th[t].final, ![j].hold = "none",
                               ![j].finished = NextRank(Finished, Jobs)]
         /\ cool' = (cool \/ JobType[j] \in {"perf", "tests"})
         /\ Goto(t, "notify")
         /\ UNCHANGED <<locked, asleep>>
  /\ UNCHANGED <<osVars, msg, envVars>>

\* Mutant: `changed == 0' is not looked at.
CommitAlwaysNotifies(t) ==
  /\ th[t].pc = "commit"
  /\ LET j == th[t].job
     IN  IF IsTerminal(j)
           THEN /\ Goto(t, "notify")
                /\ UNCHANGED <<row, cool, locked, asleep>>
           ELSE /\ row' = [row EXCEPT ![j].state = th[t].final, ![j].hold = "none",
                                      ![j].finished = NextRank(Finished, Jobs)]
                /\ cool' = (cool \/ JobType[j] \in {"perf", "tests"})
                /\ Goto(t, "notify")
                /\ UNCHANGED <<locked, asleep>>
  /\ UNCHANGED <<osVars, msg, envVars>>

\* The UPDATE of finish_queue_job_conn.  `changed == 0' returns Ok at once; a
\* pass whose start failed then finds the row in another state than failed.
Commit(t) ==
  /\ th[t].pc = "commit"
  /\ LET j == th[t].job
     IN  IF IsTerminal(j)
           THEN /\ IF t \in locked /\ th[t].final = "failed" THEN Abort(t) ELSE Resume(t)
                /\ UNCHANGED <<row, cool>>
           ELSE /\ row' = [row EXCEPT ![j].state = th[t].final, ![j].hold = "none",
                                      ![j].finished = NextRank(Finished, Jobs)]
                /\ cool' = (cool \/ JobType[j] \in {"perf", "tests"})
                /\ Goto(t, "notify")
                /\ UNCHANGED <<locked, asleep>>
  /\ UNCHANGED <<osVars, msg, envVars>>

\* enqueue_message_once_with_metadata: INSERT OR IGNORE, then compare
Enqueued(j, text) == msg[j] \in {NoMsg, text}
Enqueue(j, text)  == msg' = [msg EXCEPT ![j] = IF @ = NoMsg THEN text ELSE @]

\* queue_job_completion_text
TextOf(j, state, seen) == [state |-> state, seen |-> seen, tail |-> log[j]]

Notify(t) ==
  /\ th[t].pc = "notify"
  /\ LET j    == th[t].job
         text == TextOf(j, th[t].final, th[t].seen)
     IN  /\ Enqueue(j, text)
         /\ IF Enqueued(j, text) THEN Goto(t, "stamp") /\ UNCHANGED <<locked, asleep>>
                                 ELSE FinishFailed(t)
  /\ UNCHANGED <<row, osVars, envVars, cool>>

\* Mutant: the error is dropped and the row stamped.
NotifyFailsSilently(t) ==
  /\ th[t].pc = "notify"
  /\ faults < MaxFaults
  /\ faults' = faults + 1
  /\ Goto(t, "stamp")
  /\ UNCHANGED <<dbVars, osVars, locked, asleep, policy, crashes, cool>>

\* The message database refuses (locked beyond busy_timeout, disk full, ...).
NotifyFails(t) ==
  /\ th[t].pc = "notify"
  /\ faults < MaxFaults
  /\ faults' = faults + 1
  /\ FinishFailed(t)
  /\ UNCHANGED <<dbVars, osVars, policy, crashes, cool>>

Stamp(t) ==
  /\ th[t].pc = "stamp"
  /\ row' = [row EXCEPT ![th[t].job].notified = TRUE]
  /\ Resume(t)
  /\ UNCHANGED <<osVars, msg, envVars, cool>>

-----------------------------------------------------------------------------
(* admit_pending_queue_jobs_conn *)

\* Mutant: admission without QUEUE_ADMISSION_LOCK.
AdmitUnlocked(t) ==
  /\ th[t].pc = "lock"
  /\ IF ServiceReserveHolds
       THEN th' = [th EXCEPT ![t] = At("scan")] /\ locked' = locked \cup {t} /\ UNCHANGED asleep
       ELSE Abort(t)
  /\ UNCHANGED <<dbVars, osVars, envVars, cool>>

AdmitLock(t) ==
  /\ th[t].pc = "lock"
  /\ locked = {}
  /\ IF ServiceReserveHolds
       THEN th' = [th EXCEPT ![t] = At("scan")] /\ locked' = {t} /\ UNCHANGED asleep
       ELSE Abort(t)
  /\ UNCHANGED <<dbVars, osVars, envVars, cool>>

\* One turn of the loop up to its next write
PassHolds(t) ==
  /\ PassHeld
  /\ EndPass(t, th[t].retry \/ HeldForCooldown)

PassDisplaces(t) ==
  /\ ~PassHeld /\ Displaces
  /\ \E j \in Oldest(Running("background"), Started) :
       th' = [th EXCEPT ![t].pc = "dmark", ![t].job = j,
                ![t].final = "displaced", ![t].seen = TRUE]
  /\ UNCHANGED <<locked, asleep>>

PassAtCapacity(t) ==
  /\ ~PassHeld /\ ~Displaces /\ PassFull
  /\ EndPass(t, th[t].retry)

PassFindsNone(t) ==
  /\ ~PassHeld /\ ~Displaces /\ ~PassFull
  /\ \A type \in Types : ~Admissible(type)
  /\ EndPass(t, th[t].retry \/ SkipsCoolingPerf)

PassChooses(t) ==
  /\ ~PassHeld /\ ~Displaces /\ ~PassFull
  /\ \E type \in Types :
       /\ Admissible(type)
       /\ \A u \in Types : Admissible(u) => TypeRank[type] <= TypeRank[u]
       /\ \E j \in Oldest(Pending(type), Queued) :
            th' = [th EXCEPT ![t].pc = "start", ![t].job = j,
                     ![t].retry = th[t].retry \/ SkipsCoolingPerf]
  /\ UNCHANGED <<locked, asleep>>

Scan(t) ==
  /\ th[t].pc = "scan"
  /\ \/ PassHolds(t) \/ PassDisplaces(t) \/ PassAtCapacity(t)
     \/ PassFindsNone(t) \/ PassChooses(t)
  /\ UNCHANGED <<dbVars, osVars, envVars, cool>>

\* start_queue_job_in_state_dir_with_policy: the row is read again ...
StartStale(t) ==
  /\ th[t].pc = "start"
  /\ row[th[t].job].state # "pending"
  /\ th' = [th EXCEPT ![t] = [At("scan") EXCEPT !.retry = th[t].retry]]
  /\ UNCHANGED <<dbVars, osVars, locked, asleep, envVars, cool>>

\* ... and a process group is spawned for it
Start(t) ==
  /\ th[t].pc = "start"
  /\ LET j == th[t].job
         k == launches[j] + 1
     IN  /\ row[j].state = "pending"
         /\ k \in Launches
         /\ launches' = [launches EXCEPT ![j] = k]
         /\ proc' = [proc EXCEPT ![j][k] = [wrapper |-> "run", group |-> TRUE]]
  /\ Goto(t, "mark")
  /\ UNCHANGED <<dbVars, receipt, log, locked, asleep, envVars, cool>>

StartFails(t) ==
  /\ th[t].pc = "start"
  /\ row[th[t].job].state = "pending"
  /\ faults < MaxFaults
  /\ faults' = faults + 1
  /\ th' = [th EXCEPT ![t].pc = "commit", ![t].final = "failed"]
  /\ UNCHANGED <<dbVars, osVars, locked, asleep, policy, crashes, cool>>

\* Mutant: the UPDATE does not ask for a pending row.
MarkUnguarded(t) ==
  /\ th[t].pc = "mark"
  /\ LET j == th[t].job
     IN  /\ row' = [row EXCEPT ![j].state = "running", ![j].hold = "none",
                               ![j].pg = launches[j],
                               ![j].started = NextRank(Started, OfType(JobType[j]))]
         /\ th' = [th EXCEPT ![t] = [At("scan") EXCEPT !.retry = th[t].retry],
                             ![<<"monitor", j>>] = AtJob("watch", j)]
  /\ UNCHANGED <<osVars, msg, locked, asleep, envVars, cool>>

\* UPDATE ... SET state = 'running' ... WHERE state = 'pending', whose row count
\* is ignored: the monitor thread starts either way.
Mark(t) ==
  /\ th[t].pc = "mark"
  /\ LET j == th[t].job
     IN  /\ row' = IF row[j].state = "pending"
                     THEN [row EXCEPT ![j].state = "running", ![j].hold = "none",
                                      ![j].pg = launches[j],
                                      ![j].started = NextRank(Started, OfType(JobType[j]))]
                     ELSE row
         /\ th' = [th EXCEPT ![t] = [At("scan") EXCEPT !.retry = th[t].retry],
                             ![<<"monitor", j>>] = AtJob("watch", j)]
  /\ UNCHANGED <<osVars, msg, locked, asleep, envVars, cool>>

\* The thread of schedule_queue_admission_retry wakes.
TimerFires ==
  /\ asleep /\ th[Timer].pc = "off"
  /\ asleep' = FALSE
  /\ th' = [th EXCEPT ![Timer] = At("lock")]
  /\ UNCHANGED <<dbVars, osVars, locked, envVars, cool>>

-----------------------------------------------------------------------------
(* monitor_queue_job_completion: the thread that owns the child *)

Child(t) == proc[th[t].job][launches[th[t].job]]
ChildGone(t) == Child(t).wrapper # "run" /\ ~Child(t).group

MonitorCancelled(t) ==
  /\ th[t].pc = "watch"
  /\ row[th[t].job].state = "cancelled"
  /\ th' = [th EXCEPT ![t] = Off]
  /\ UNCHANGED <<dbVars, osVars, locked, asleep, envVars, cool>>

MonitorExit(t) ==
  /\ th[t].pc = "watch"
  /\ row[th[t].job].state # "cancelled"
  /\ ChildGone(t)
  /\ th' = [th EXCEPT ![t].pc = "decide",
              ![t].final = IF Child(t).wrapper = "ok" THEN "succeeded" ELSE "failed"]
  /\ UNCHANGED <<dbVars, osVars, locked, asleep, envVars, cool>>

MonitorTimeout(t) ==
  /\ th[t].pc = "watch"
  /\ th[t].job \notin Untimed
  /\ row[th[t].job].state # "cancelled"
  /\ ~ChildGone(t)
  /\ th' = [th EXCEPT ![t].pc = "kill", ![t].final = "timed_out"]
  /\ UNCHANGED <<dbVars, osVars, locked, asleep, envVars, cool>>

\* try_wait fails
MonitorWaitFails(t) ==
  /\ th[t].pc = "watch"
  /\ faults < MaxFaults
  /\ faults' = faults + 1
  /\ th' = [th EXCEPT ![t].pc = "kill", ![t].final = "failed"]
  /\ UNCHANGED <<dbVars, osVars, locked, asleep, policy, crashes, cool>>

\* finish_queue_job_in_state_dir_if_running up to the UPDATE
MonitorDecide(t) ==
  /\ th[t].pc = "decide"
  /\ LET r == row[th[t].job]
     IN  th' = [th EXCEPT ![t] =
                  IF r.state = "running"
                    THEN [th[t] EXCEPT !.pc = "commit", !.seen = TRUE,
                                       !.final = ForcedState(r.hold, th[t].final)]
                    ELSE Off]
  /\ UNCHANGED <<dbVars, osVars, locked, asleep, envVars, cool>>

-----------------------------------------------------------------------------
(* Recovery after a restart and poll_recovered_queue_job.  Both inspect a   *)
(* running row in the same order.                                           *)

RecoverSelect(t) ==
  /\ th[t].pc = "select"
  /\ th' = [th EXCEPT ![t] = [At("each") EXCEPT !.todo = AllRunning]]
  /\ UNCHANGED <<dbVars, osVars, locked, asleep, envVars, cool>>

RecoverNext(t) ==
  /\ th[t].pc = "each"
  /\ \E j \in Oldest(th[t].todo, Queued) :
       th' = [th EXCEPT ![t] = [AtJob("look", j) EXCEPT !.todo = th[t].todo \ {j}]]
  /\ UNCHANGED <<dbVars, osVars, locked, asleep, envVars, cool>>

\* Mutant: recovery ends without an admission pass.
RecoverDoneNoAdmission(t) ==
  /\ th[t].pc = "each" /\ th[t].todo = {}
  /\ th' = [th EXCEPT ![t] = At("sleep")]
  /\ UNCHANGED <<dbVars, osVars, locked, asleep, envVars, cool>>

RecoverDone(t) ==
  /\ th[t].pc = "each" /\ th[t].todo = {}
  /\ th' = [th EXCEPT ![t] = At("lock")]
  /\ UNCHANGED <<dbVars, osVars, locked, asleep, envVars, cool>>

\* The thread has nothing more to do for this job.
LookDone(t) ==
  IF t = Recovery THEN [At("each") EXCEPT !.todo = th[t].todo] ELSE Off

Receipt(j) == IF receipt[j] = "ok" THEN "succeeded" ELSE "failed"

\* Row, holding reason and receipt file, in this order
Look(t) ==
  /\ th[t].pc = "look"
  /\ LET j == th[t].job
         r == row[j]
         finishBy(pc, final) ==
           th' = [th EXCEPT ![t].pc = pc, ![t].final = final, ![t].seen = TRUE]
     IN  CASE r.state # "running" -> th' = [th EXCEPT ![t] = LookDone(t)]
           [] r.state = "running" /\ r.hold # "none" ->
                finishBy("kill", ForcedState(r.hold, "none"))
           [] r.state = "running" /\ r.hold = "none" /\ receipt[j] # "none" ->
                finishBy("commit", Receipt(j))
           [] OTHER -> Goto(t, "probe")
  /\ UNCHANGED <<dbVars, osVars, locked, asleep, envVars, cool>>

ProbeTimedOut(t) ==
  /\ th[t].pc = "probe"
  /\ th[t].job \notin Untimed
  /\ th' = [th EXCEPT ![t].pc = "kill", ![t].final = "timed_out", ![t].seen = TRUE]
  /\ UNCHANGED <<dbVars, osVars, locked, asleep, envVars, cool>>

PidAlive(j) == row[j].pg # 0 /\ proc[j][row[j].pg].wrapper = "run"

ProbeDead(t) ==
  /\ th[t].pc = "probe"
  /\ ~PidAlive(th[t].job)
  /\ th' = [th EXCEPT ![t].pc = "commit", ![t].final = "failed", ![t].seen = TRUE]
  /\ UNCHANGED <<dbVars, osVars, locked, asleep, envVars, cool>>

\* Mutant: recovery leaves a live job without a poller.
ProbeAliveUnwatched(t) ==
  /\ th[t].pc = "probe"
  /\ PidAlive(th[t].job)
  /\ th' = IF t = Recovery THEN [th EXCEPT ![t] = LookDone(t)] ELSE [th EXCEPT ![t].pc = "look"]
  /\ UNCHANGED <<dbVars, osVars, locked, asleep, envVars, cool>>

\* A poller sleeps and looks again; recovery starts a poller and goes on.
ProbeAlive(t) ==
  /\ th[t].pc = "probe"
  /\ LET j == th[t].job
     IN  /\ PidAlive(j)
         /\ th' = IF t = Recovery
                    THEN [th EXCEPT ![t] = LookDone(t), ![<<"poller", j>>] = AtJob("look", j)]
                    ELSE [th EXCEPT ![t].pc = "look"]
  /\ UNCHANGED <<dbVars, osVars, locked, asleep, envVars, cool>>

-----------------------------------------------------------------------------
(* retry_unnotified_queue_job_completions_conn, every five seconds           *)

\* Mutant: cancelled jobs are not retried.
UnnotifiedNotCancelled ==
  {j \in Jobs : IsTerminal(j) /\ row[j].state # "cancelled" /\ ~row[j].notified}

Unnotified == {j \in Jobs : IsTerminal(j) /\ ~row[j].notified}

RetryTick(t) ==
  /\ th[t].pc = "sleep"
  /\ Unnotified # {}
  /\ th' = [th EXCEPT ![t] = [At("renotify") EXCEPT !.todo = Unnotified]]
  /\ UNCHANGED <<dbVars, osVars, locked, asleep, envVars, cool>>

RenotifyDone(t) ==
  /\ th[t].pc = "renotify" /\ th[t].todo = {}
  /\ th' = [th EXCEPT ![t] = At("sleep")]
  /\ UNCHANGED <<dbVars, osVars, locked, asleep, envVars, cool>>

\* One job of the list, oldest verdict first.  A job that was stamped in the
\* meantime is passed over; a message with another text ends the whole round.
Renotify(t) ==
  /\ th[t].pc = "renotify"
  /\ \E j \in Oldest(th[t].todo, Finished) :
       LET rest == th[t].todo \ {j}
           text == TextOf(j, row[j].state, row[j].started # 0)
       IN  \/ /\ row[j].notified
              /\ th' = [th EXCEPT ![t].todo = rest]
              /\ UNCHANGED msg
           \/ /\ ~row[j].notified /\ Enqueued(j, text)
              /\ Enqueue(j, text)
              /\ th' = [th EXCEPT ![t] = [AtJob("restamp", j) EXCEPT !.todo = rest]]
           \/ /\ ~row[j].notified /\ ~Enqueued(j, text)
              /\ th' = [th EXCEPT ![t] = At("sleep")]
              /\ UNCHANGED msg
  /\ UNCHANGED <<row, osVars, locked, asleep, envVars, cool>>

RenotifyFails(t) ==
  /\ th[t].pc = "renotify" /\ th[t].todo # {}
  /\ faults < MaxFaults
  /\ faults' = faults + 1
  /\ th' = [th EXCEPT ![t] = At("sleep")]
  /\ UNCHANGED <<dbVars, osVars, locked, asleep, policy, crashes, cool>>

Restamp(t) ==
  /\ th[t].pc = "restamp"
  /\ row' = [row EXCEPT ![th[t].job].notified = TRUE]
  /\ th' = [th EXCEPT ![t] = [At("renotify") EXCEPT !.todo = th[t].todo]]
  /\ UNCHANGED <<osVars, msg, locked, asleep, envVars, cool>>

-----------------------------------------------------------------------------
\* The server process ends and is started again, maybe with another
\* configuration.  Databases, files and process groups stay.
Crash ==
  /\ crashes < MaxCrashes
  /\ crashes' = crashes + 1
  /\ th' = [t \in Threads |-> IF t = Recovery THEN At("select") ELSE Off]
  /\ locked' = {}
  /\ asleep' = FALSE
  /\ policy' \in Policies
  /\ UNCHANGED <<dbVars, osVars, cool, faults>>

Environment ==
  \/ \E j \in Jobs, k \in Launches :
       \/ WrapperExits(j, k)
       \/ WrapperDies(j, k)
       \/ GroupDrains(j, k)
  \/ \E j \in Jobs : LogGrows(j)
  \/ CooldownElapses

Requests == \E j \in Jobs : CreateJob(j) \/ CancelRead(j)

Monitors == {"monitor"} \X Jobs
Pollers  == {"poller"} \X Jobs

Finishing(t) == \/ CancelMark(t) \/ DisplaceMark(t) \/ Terminate(t)
                \/ Commit(t) \/ Notify(t) \/ Stamp(t)
Admitting(t) == AdmitLock(t) \/ Scan(t) \/ StartStale(t) \/ Start(t) \/ Mark(t)
Watching(t)  == \/ MonitorCancelled(t) \/ MonitorExit(t) \/ MonitorTimeout(t)
                \/ MonitorDecide(t)
Polling(t)   == Look(t) \/ ProbeTimedOut(t) \/ ProbeDead(t) \/ ProbeAlive(t)
Recovering(t) == \/ RecoverSelect(t) \/ RecoverNext(t) \/ RecoverDone(t)
                 \/ RetryTick(t) \/ Renotify(t) \/ RenotifyDone(t) \/ Restamp(t)

ServerStep ==
  \/ \E t \in Threads : Finishing(t) \/ Admitting(t)
  \/ \E t \in Monitors : Watching(t)
  \/ \E t \in Pollers \cup {Recovery} : Polling(t)
  \/ Recovering(Recovery)
  \/ TimerFires

Failure ==
  \/ \E t \in Threads : NotifyFails(t) \/ StartFails(t)
  \/ \E t \in Monitors : MonitorWaitFails(t)
  \/ RenotifyFails(Recovery)
  \/ Crash

Next == Environment \/ Requests \/ ServerStep \/ Failure

Spec == Init /\ [][Next]_vars

\* Every server thread that can take a step takes one; a signalled group ends
\* (SIGKILL follows SIGTERM); sleeps and the cooldown end; the timeout of a
\* polled job comes although the thread only looks at the clock now and then.
\* Requests, faults, crashes and what a job does are not fair.
Fairness ==
  /\ \A t \in {"create", "cancel"} \X Jobs : WF_vars(Finishing(t) \/ Admitting(t))
  /\ WF_vars(Finishing(Timer) \/ Admitting(Timer))
  /\ \A t \in Monitors : WF_vars(Finishing(t) \/ Admitting(t) \/ Watching(t))
  /\ \A t \in Pollers : WF_vars(Finishing(t) \/ Admitting(t) \/ Polling(t))
  /\ WF_vars(Finishing(Recovery) \/ Admitting(Recovery) \/ Polling(Recovery) \/ Recovering(Recovery))
  /\ \A j \in Jobs : SF_vars(ProbeTimedOut(<<"poller", j>>))
  /\ \A j \in Jobs, k \in Launches : WF_vars(SignalledGroupEnds(j, k))
  /\ WF_vars(TimerFires)
  /\ WF_vars(CooldownElapses)

FairSpec == Spec /\ Fairness

-----------------------------------------------------------------------------
(* Correctness *)

GroupAlive(j) == \E k \in Launches : proc[j][k].group

\* The first verdict stands: whatever monitor, poller, cancel, displacement and
\* recovery threads do afterwards, the state and the finish time of a finished
\* job never change (the WHERE clause of finish_queue_job_conn).
TerminalIsFinal ==
  [][\A j \in Jobs : IsTerminal(j) => /\ row'[j].state = row[j].state
                                      /\ row'[j].finished = row[j].finished]_vars

\* A completion message is about a finished job and announces the verdict in
\* the table, although it is written to another database after the commit.
MessageMatchesRow ==
  \A j \in Jobs : msg[j] # NoMsg => IsTerminal(j) /\ msg[j].state = row[j].state

\* completion_notified_at is only set when the requester's message is queued, so
\* the retry loop never forgets a completion.
StampMeansQueued == \A j \in Jobs : row[j].notified => msg[j] # NoMsg

\* The runner implements the ledger its requesters see: status, mailbox, stamp.
Ledger == INSTANCE JobLedger WITH
  Verdicts <- Terminal,
  state    <- [j \in Jobs |-> row[j].state],
  report   <- [j \in Jobs |-> msg[j].state],
  told     <- [j \in Jobs |-> row[j].notified]

\* Every step of the runner is one step of the ledger or none: a job is begun once,
\* decided once, and reported once with its verdict, across crashes and retries.
ImplementsLedger == Ledger!LedgerSpec

\* A server start spawns at most one process group for a job, although request
\* handlers, monitors, pollers, timers and recovery all run admission passes.
OneLaunchPerServer == \A j \in Jobs : launches[j] <= crashes + 1

\* No admission exceeds the global or the type's capacity of the policy in force.
CapacityRespected ==
  [][\A j \in Jobs : (row[j].state # "running" /\ row'[j].state = "running") =>
       /\ Cardinality(AllRunning') <= policy.max
       /\ Cardinality(Running(JobType[j])') <= policy.cap[JobType[j]]]_vars

\* A perf job runs alone: the table never shows it running beside a tests or a
\* background job, across displacements, cancellations and retries.
PerfRunsAlone ==
  Running("perf") # {} => Running("tests") = {} /\ Running("background") = {}

\* A verdict waits for the process group.  Two verdicts do not: recovery and its
\* pollers trust a receipt or a dead leader, and a cancellation that read the row
\* as pending has no group to wait for.
VerdictWaitsForGroup ==
  [][\A t \in Threads :
       LET j == th[t].job
       IN  (th[t].pc = "commit" /\ th'[t].pc = "notify"
              /\ (t \in locked \/ t \notin Pollers \cup {Recovery}) /\ th[t].seen)
             => row[j].pg # 0 /\ ~proc[j][row[j].pg].group]_vars

\* Some thread is responsible for job j.
Handles(t, j) == th[t].pc # "off" /\ (th[t].job = j \/ j \in th[t].todo)

\* Until a fault, every running job is watched by a monitor or a poller, or
\* recovery has yet to come to it.
Supervised ==
  faults = 0 =>
    \A j \in AllRunning :
      th[Recovery].pc = "select"
        \/ \E t \in {<<"monitor", j>>, <<"poller", j>>, Recovery} : Handles(t, j)

\* Every submitted job gets a verdict.
JobsSettle == \A j \in Jobs : row[j].state \in {"pending", "running"} ~> IsTerminal(j)

\* Every verdict is reported to the requester's queue.
CompletionQueued == \A j \in Jobs : IsTerminal(j) ~> msg[j] # NoMsg

\* specs/1244: every verdict, a cancellation included, waits until the entire
\* process group is absent.  The code does not keep this: see the README.
GroupAbsentWhenTerminal == \A j \in Jobs : IsTerminal(j) => ~GroupAlive(j)

\* specs/670: a pending job starts (or ends) without further requests when all
\* slots are free.  The code does not keep this after a failed enqueue.
FreeSlotIsUsed ==
  \A j \in Jobs : (row[j].state = "pending" /\ AllRunning = {}) ~> row[j].state # "pending"

=============================================================================
