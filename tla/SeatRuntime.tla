----------------------------- MODULE SeatRuntime -----------------------------
(***************************************************************************)
(* Seats and their tmux runtimes in sm-server (sessions.rs, runtime.rs):   *)
(* creating, restoring, clearing and retiring a seat, the journal of       *)
(* runtime launches that a restart recovers from, and the rotation of      *)
(* credentials, which relaunches an idle seat.                             *)
(*                                                                         *)
(* A step is one replacement of the registry file or one operation on      *)
(* tmux.  held is the operation that keeps the store's write guard over    *)
(* several steps; a create, a clear and a rotation worker let go of the    *)
(* guard while they wait, so they have a state of their own.  A crash      *)
(* forgets those and keeps the registry and tmux.                          *)
(***************************************************************************)
EXTENDS Integers, FiniteSetsExt, SequencesExt

CONSTANTS
  Seats,         \* session ids
  Providers,     \* providers a seat may have
  MaxLaunches,   \* bound: runtime launches ever recorded
  MaxRotations,  \* bound: rotations ever recorded
  MaxThreads,    \* bound: conversations ever started
  SeatCrashes,   \* bound: server crashes
  SeatFaults,    \* bound: tmux commands that fail, providers that do not come up or are not
                 \* found in time, and runtimes that die
  Overlaps       \* is a seat restored while it is still being created?

ASSUME SeatAssumption ==
  /\ Providers \subseteq {"claude", "codex", "codex-fork"} /\ Providers # {}
  /\ MaxLaunches \in Nat /\ MaxRotations \in Nat /\ MaxThreads \in Nat
  /\ SeatCrashes \in Nat /\ SeatFaults \in Nat /\ Overlaps \in BOOLEAN

VARIABLES
  prov,      \* the provider of each seat
  seat,      \* registry: sessions
  launch,    \* registry: session_runtime_launches, oldest first
  rot,       \* registry: session_credential_rotations, oldest first
  pane,      \* tmux: the credential of the runtime in the seat's session, 0 if there is none
  conv,      \* provider files: the conversation the runtime of the seat last had
  held,      \* the operation that holds the write guard
  maker,     \* create handlers that wait for their runtime
  clearer,   \* clear handlers, and deferred searches for the new conversation
  asker,     \* seats whose new rotation has no worker yet
  worker,    \* credential rotation workers
  serving,   \* has startup recovery ended?
  creds, threads, seatCrashes, seatFaults

registryVars == <<seat, launch, rot>>
memoryVars == <<held, maker, clearer, asker, worker, serving>>
seatVars == <<prov, seat, launch, rot, pane, conv, held, maker, clearer, asker, worker,
              serving, creds, threads, seatCrashes, seatFaults>>

-----------------------------------------------------------------------------
(* Records *)

\* SessionRecord.  A status of error counts as idle (normalized_status); proof: an
\* idle report is newer than the latest rotation request.
NoSeat == [there |-> FALSE, status |-> "stopped", retired |-> FALSE, cred |-> 0,
           thread |-> 0, proof |-> FALSE]

\* SessionRuntimeLaunchRecord: what recovery reads of it
LaunchRecord(kind, s, th, r, brief) ==
  [kind |-> kind, seat |-> s, status |-> "launching", cred |-> creds + 1, thread |-> th,
   rot |-> r, brief |-> brief]

NoOp == [op |-> "none", l |-> 0, pc |-> "none"]
Op(op, l, pc) == [op |-> op, l |-> l, pc |-> pc]
Asleep == [pc |-> "none", l |-> 0, th |-> 0]

GuardFree == held = NoOp /\ serving

IsStopped(s) == seat[s].status = "stopped" \/ seat[s].retired

LiveSeat(s) == seat[s].there /\ ~IsStopped(s)

ActiveRotation == {"waiting_idle", "relaunching"}
ActiveOf(s) == {r \in DOMAIN rot : rot[r].seat = s /\ rot[r].status \in ActiveRotation}

\* finalize_active_credential_rotations_for_terminal_session
FinalRot(s) == [r \in DOMAIN rot |-> IF r \in ActiveOf(s) THEN [rot[r] EXCEPT !.status = "failed"]
                                                           ELSE rot[r]]

FinalLaunch(s) ==
  [i \in DOMAIN launch |->
     IF launch[i].rot \in ActiveOf(s) /\ launch[i].status = "launching"
     THEN [launch[i] EXCEPT !.status = "failed"] ELSE launch[i]]

\* mark_session_runtime_missing_terminal
MarkMissing(s) ==
  /\ rot' = FinalRot(s) /\ launch' = FinalLaunch(s)
  /\ seat' = [seat EXCEPT ![s].status = "stopped"]

\* mark_runtime_launch_applied
MarkApplied(l) ==
  /\ launch' = [launch EXCEPT ![l].status = "applied"]
  /\ rot' = [r \in DOMAIN rot |-> IF r = launch[l].rot THEN [rot[r] EXCEPT !.status = "applied"]
                                                       ELSE rot[r]]

\* mark_runtime_launch_failed
MarkFailed(l, remove) ==
  LET s == launch[l].seat IN
  /\ rot' = IF remove THEN rot ELSE FinalRot(s)
  /\ launch' = [IF remove THEN launch ELSE FinalLaunch(s) EXCEPT ![l].status = "failed"]
  /\ seat' = [seat EXCEPT ![s] = IF remove THEN NoSeat ELSE [@ EXCEPT !.status = "stopped"]]

\* mark_runtime_launch_restore_request_inconclusive and ..._recovery_inconclusive: the old
\* runtime may be alive, so the seat stays live and keeps its credential.
MarkInconclusive(l) ==
  /\ launch' = [launch EXCEPT ![l].status = "failed"]
  /\ seat' = [seat EXCEPT ![launch[l].seat].status = "idle", ![launch[l].seat].retired = FALSE]
  /\ rot' = rot

\* A tmux command fails, or a provider does not come up
Fault == seatFaults < SeatFaults /\ seatFaults' = seatFaults + 1
NoFault == seatFaults' = seatFaults

\* Step of the operation that holds the guard
Step(pc) == held' = [held EXCEPT !.pc = pc]
Done == held' = NoOp

\* The rotation worker whose operation ends goes on to pc.
WorkerGoes(s, pc) ==
  worker' = IF worker[s].pc \in {"busy", "recover"} /\ held.op # "restore"
            THEN [worker EXCEPT ![s].pc = pc] ELSE worker

-----------------------------------------------------------------------------
(* Creating a seat: create_core_session_with_runtime *)

\* The seat is recorded as stopped and its launch as launching, then the guard is let go.
\* A Claude seat with a spawn brief knows its conversation beforehand.
CreateBegin(s) ==
  /\ GuardFree /\ \A i \in DOMAIN launch : launch[i].seat # s
  /\ Len(launch) < MaxLaunches /\ threads < MaxThreads
  /\ \E brief \in IF prov[s] = "claude" THEN BOOLEAN ELSE {FALSE} :
       LET th == IF brief THEN threads + 1 ELSE 0 IN
       /\ launch' = Append(launch, LaunchRecord("create", s, th, 0, brief))
       /\ seat' = [seat EXCEPT ![s] = [NoSeat EXCEPT !.there = TRUE, !.cred = creds + 1,
                                                     !.thread = th]]
  /\ maker' = [maker EXCEPT ![s] = [pc |-> "start", l |-> Len(launch) + 1, th |-> threads + 1]]
  /\ creds' = creds + 1 /\ threads' = threads + 1
  /\ UNCHANGED <<prov, rot, pane, conv, held, clearer, asker, worker, serving,
                 seatCrashes, seatFaults>>

\* TmuxRuntime::create_session refuses a name that is taken.
MakerStart(s) ==
  /\ maker[s].pc = "start"
  /\ \/ /\ pane[s] = 0 /\ NoFault
        /\ pane' = [pane EXCEPT ![s] = launch[maker[s].l].cred]
        /\ conv' = [conv EXCEPT ![s] = maker[s].th]
        /\ maker' = [maker EXCEPT ![s].pc = "wait"]
     \/ /\ (pane[s] # 0 /\ NoFault) \/ Fault
        /\ maker' = [maker EXCEPT ![s].pc = "failed"]
        /\ UNCHANGED <<pane, conv>>
  /\ UNCHANGED <<prov, seat, launch, rot, held, clearer, asker, worker, serving,
                 creds, threads, seatCrashes>>

\* The wait for the provider: a fork must publish its conversation or is killed, Codex
\* may not have been found yet.
MakerWait(s) ==
  /\ maker[s].pc = "wait"
  /\ \/ /\ prov[s] = "codex-fork" => pane[s] # 0
        /\ NoFault /\ pane' = pane
        /\ \E th \in CASE prov[s] = "claude"     -> {launch[maker[s].l].thread}
                      [] prov[s] = "codex"      -> {0, conv[s]}
                      [] prov[s] = "codex-fork" -> {conv[s]} :
             maker' = [maker EXCEPT ![s].pc = "commit", ![s].th = th]
     \/ /\ prov[s] = "codex-fork"
        /\ (pane[s] = 0 /\ NoFault) \/ Fault
        /\ pane' = [pane EXCEPT ![s] = 0]
        /\ maker' = [maker EXCEPT ![s].pc = "failed"]
  /\ UNCHANGED <<prov, seat, launch, rot, conv, held, clearer, asker, worker, serving,
                 creds, threads, seatCrashes>>

\* A failed create takes the seat out of the registry again, unless it was retired.
MakerFailed(s) ==
  /\ GuardFree /\ maker[s].pc = "failed"
  /\ MarkFailed(maker[s].l, ~seat[s].retired)
  /\ maker' = [maker EXCEPT ![s] = Asleep]
  /\ UNCHANGED <<prov, pane, conv, held, clearer, asker, worker, serving, creds,
                 threads, seatCrashes, seatFaults>>

MakerCommit(s) ==
  /\ GuardFree /\ maker[s].pc = "commit"
  /\ maker' = [maker EXCEPT ![s] = Asleep]
  /\ \/ /\ seat[s].retired
        /\ pane' = [pane EXCEPT ![s] = 0]
        /\ MarkFailed(maker[s].l, FALSE)
        /\ clearer' = clearer
     \/ /\ ~seat[s].retired
        /\ seat' = [seat EXCEPT ![s].status = "running", ![s].thread = maker[s].th]
        /\ MarkApplied(maker[s].l)
        /\ clearer' = IF prov[s] = "codex" /\ maker[s].th = 0
                      THEN [clearer EXCEPT ![s] = [Asleep EXCEPT !.pc = "rebind"]] ELSE clearer
        /\ pane' = pane
  /\ UNCHANGED <<prov, conv, held, asker, worker, serving, creds, threads,
                 seatCrashes, seatFaults>>

-----------------------------------------------------------------------------
(* Restoring and retiring a seat *)

\* The conversation a restore would resume: the recorded one, or one it finds on disk
Resumable(s) == IF seat[s].thread # 0 THEN {seat[s].thread}
                ELSE IF prov[s] = "codex-fork" THEN {} ELSE {conv[s]} \ {0}

\* restore_core_session_with_runtime, up to its first write.  A fork keeps the credential
\* of the runtime that may still be there.
RestoreBegin(s) ==
  /\ GuardFree /\ seat[s].there /\ IsStopped(s)
  /\ Len(launch) < MaxLaunches /\ (Overlaps \/ maker[s] = Asleep)
  /\ \E th \in Resumable(s) :
       /\ launch' = Append(launch, LaunchRecord("restore", s, th, 0, FALSE))
       /\ seat' = [seat EXCEPT ![s].thread = th,
                              ![s].cred = IF prov[s] = "codex-fork" THEN @ ELSE creds + 1]
  /\ creds' = creds + 1
  /\ held' = Op("restore", Len(launch) + 1, "kill")
  /\ UNCHANGED <<prov, rot, pane, conv, maker, clearer, asker, worker, serving,
                 threads, seatCrashes, seatFaults>>

\* retire_core_session_with_runtime_authorized: a stopped seat is retired already; the
\* retirement intent it writes first is for the audit only.
RetireBegin(s) ==
  /\ GuardFree /\ LiveSeat(s)
  /\ held' = [op |-> "retire", l |-> s, pc |-> "kill"]
  /\ UNCHANGED <<prov, seat, launch, rot, pane, conv, maker, clearer, asker, worker, serving,
                 creds, threads, seatCrashes, seatFaults>>

RetireKill ==
  /\ held.op = "retire" /\ held.pc = "kill"
  /\ \/ NoFault /\ pane' = [pane EXCEPT ![held.l] = 0] /\ Step("commit")
     \/ Fault /\ pane' = pane /\ Done
  /\ UNCHANGED <<prov, seat, launch, rot, conv, maker, clearer, asker, worker, serving,
                 creds, threads, seatCrashes>>

RetireCommit ==
  /\ held.op = "retire" /\ held.pc = "commit"
  /\ rot' = FinalRot(held.l) /\ launch' = FinalLaunch(held.l)
  /\ seat' = [seat EXCEPT ![held.l].status = "stopped", ![held.l].retired = TRUE]
  /\ Done
  /\ UNCHANGED <<prov, pane, conv, maker, clearer, asker, worker, serving, creds,
                 threads, seatCrashes, seatFaults>>

-----------------------------------------------------------------------------
(* The steps a restore, a rotation and a recovery have in common *)

Target == launch[held.l].seat
Cred == launch[held.l].cred
Removes == held.op = "recover" /\ launch[held.l].kind = "create"

\* Tearing down what is in the way.  A restored fork gets its new credential only now; the
\* others may also fail to find out whether anything is there, which leaves a restore's
\* launch as it is.
KillOld ==
  /\ held.pc = "kill" /\ held.op \in {"restore", "rotate", "recover"}
  /\ LET s == Target IN
     \/ /\ NoFault
        /\ pane' = [pane EXCEPT ![s] = 0]
        /\ Step("start")
        /\ seat' = IF held.op = "restore" /\ prov[s] = "codex-fork"
                   THEN [seat EXCEPT ![s].cred = Cred] ELSE seat
        /\ UNCHANGED <<launch, rot, worker>>
     \/ /\ Fault /\ Done
        /\ IF held.op = "restore" /\ prov[s] = "codex-fork"
           THEN MarkInconclusive(held.l) ELSE MarkFailed(held.l, Removes)
        /\ WorkerGoes(s, "exit")
        /\ pane' = pane
     \/ /\ held.op = "restore" /\ prov[s] # "codex-fork"
        /\ Fault /\ Done
        /\ UNCHANGED <<pane, seat, launch, rot, worker>>
  /\ UNCHANGED <<prov, conv, maker, clearer, asker, serving, creds, threads,
                 seatCrashes>>

NextPc == CASE held.op = "restore" /\ prov[Target] = "codex-fork" -> "verify"
            [] held.op = "rotate"                                 -> "check"
            [] Removes /\ prov[Target] = "codex-fork"             -> "wait"
            [] OTHER                                              -> "commit"

\* TmuxRuntime::restore_session, or create_session for a recovered create
StartNew ==
  /\ held.pc = "start"
  /\ LET s == Target IN
     \/ /\ pane[s] = 0 /\ NoFault
        /\ pane' = [pane EXCEPT ![s] = Cred]
        /\ conv' = [conv EXCEPT ![s] = IF Removes THEN threads + 1 ELSE launch[held.l].thread]
        /\ threads' = IF Removes THEN threads + 1 ELSE threads
        /\ Step(NextPc)
        /\ UNCHANGED <<seat, launch, rot, worker>>
     \/ /\ (pane[s] # 0 /\ NoFault) \/ Fault
        /\ MarkFailed(held.l, Removes)
        /\ WorkerGoes(s, "exit") /\ Done
        /\ UNCHANGED <<pane, conv, threads>>
  /\ UNCHANGED <<prov, maker, clearer, asker, serving, creds, seatCrashes>>

\* A restored fork must report the conversation it was given and survive the settling
\* time; a recovered create must report one.
Verify ==
  /\ held.pc \in {"verify", "wait"}
  /\ LET s == Target IN
     \/ /\ pane[s] # 0 /\ NoFault
        /\ Step("commit")
        /\ UNCHANGED <<seat, launch, rot, pane>>
     \/ /\ (pane[s] = 0 /\ NoFault) \/ Fault
        /\ pane' = [pane EXCEPT ![s] = 0]
        /\ MarkFailed(held.l, Removes) /\ Done
     \/ /\ held.pc = "verify" /\ Fault /\ pane' = pane
        /\ MarkInconclusive(held.l) /\ Done
  /\ UNCHANGED <<prov, conv, maker, clearer, asker, worker, serving, creds, threads,
                 seatCrashes>>

\* The rotation looks once more whether its runtime is there.  When it cannot find out, the
\* worker comes back to a rotation that is still relaunching.
CheckRotated ==
  /\ held.pc = "check"
  /\ LET s == Target IN
     \/ /\ pane[s] # 0 /\ NoFault
        /\ Step("commit")
        /\ UNCHANGED <<seat, launch, rot, worker>>
     \/ /\ pane[s] = 0 /\ NoFault
        /\ MarkFailed(held.l, FALSE) /\ WorkerGoes(s, "exit") /\ Done
     \/ /\ Fault /\ WorkerGoes(s, "look") /\ Done
        /\ UNCHANGED <<seat, launch, rot>>
  /\ UNCHANGED <<prov, pane, conv, maker, clearer, asker, serving, creds, threads,
                 seatCrashes>>

\* The conversation a recovered launch records
Recovered == CASE ~Removes                               -> {launch[held.l].thread}
               [] Removes /\ prov[Target] = "codex"      -> {0, conv[Target]}
               [] Removes /\ prov[Target] = "codex-fork" -> {conv[Target]}
               [] OTHER                                  -> {launch[held.l].thread}

CommitLaunch ==
  /\ held.pc = "commit" /\ held.op \in {"restore", "rotate", "recover"}
  /\ LET s == Target IN
     \E th \in Recovered :
       /\ seat' = [seat EXCEPT ![s].status = "running",
                              ![s].retired = @ /\ launch[held.l].kind # "restore",
                              ![s].thread = IF th = 0 THEN @ ELSE th]
       /\ clearer' = IF Removes /\ th = 0 /\ prov[s] = "codex"
                     THEN [clearer EXCEPT ![s] = [Asleep EXCEPT !.pc = "rebind"]] ELSE clearer
       /\ WorkerGoes(s, "exit")
  /\ MarkApplied(held.l) /\ Done
  /\ UNCHANGED <<prov, pane, conv, maker, asker, serving, creds, threads, seatCrashes,
                 seatFaults>>

-----------------------------------------------------------------------------
(* Startup recovery: recover_session_runtime_launches *)

\* A brief that may have reached Claude is not sent again, and a retired seat comes back only
\* through a restore.
MayHaveSpoken(l) == prov[launch[l].seat] = "claude" /\ launch[l].brief

Recoverable(l) ==
  /\ ~MayHaveSpoken(l) /\ seat[launch[l].seat].there
  /\ seat[launch[l].seat].retired => launch[l].kind = "restore"

ForkRestore(l) == prov[launch[l].seat] = "codex-fork" /\ launch[l].kind = "restore"

\* Mutant: the recovered launch has a new credential, the seat keeps the old one.
ReissueLaunchOnly(l) ==
  /\ launch' = [launch EXCEPT ![l].cred = creds + 1]
  /\ seat' = [seat EXCEPT ![launch[l].seat].status = "stopped"]
  /\ creds' = creds + 1

\* The credential itself is not kept, so a recovered launch gets a new one.
Reissue(l) ==
  /\ launch' = [launch EXCEPT ![l].cred = creds + 1]
  /\ seat' = [seat EXCEPT ![launch[l].seat].cred = creds + 1, ![launch[l].seat].status = "stopped"]
  /\ creds' = creds + 1

\* recover_session_runtime_launch, up to the first tmux command of a replay.  The restore of a
\* fork is not replayed but undone and left to the operator.
Recover(l) ==
  LET s == launch[l].seat IN
  \/ /\ ~Recoverable(l)
     /\ MarkFailed(l, MayHaveSpoken(l) /\ launch[l].kind = "create")
     /\ NoFault /\ WorkerGoes(s, "exit")
     /\ UNCHANGED <<held, pane, creds>>
  \/ /\ Recoverable(l) /\ ForkRestore(l)
     /\ \/ NoFault /\ pane' = [pane EXCEPT ![s] = 0] /\ MarkFailed(l, FALSE)
        \/ Fault /\ pane' = pane /\ MarkInconclusive(l)
     /\ WorkerGoes(s, "exit")
     /\ UNCHANGED <<held, creds>>
  \/ /\ Recoverable(l) /\ ~ForkRestore(l)
     /\ Reissue(l)
     /\ held' = Op("recover", l, "kill")
     /\ NoFault /\ UNCHANGED <<rot, worker, pane>>

Unfinished == {i \in DOMAIN launch : launch[i].status = "launching"}

StartupRecover ==
  /\ ~serving /\ held = NoOp /\ Unfinished # {}
  /\ Recover(Min(Unfinished))
  /\ UNCHANGED <<prov, conv, maker, clearer, asker, serving, threads, seatCrashes>>

\* Once nothing is left to recover the listener opens and every rotation that waits gets
\* its worker back (recover_session_credential_rotation_workers).
StartupDone ==
  /\ ~serving /\ held = NoOp /\ Unfinished = {}
  /\ serving' = TRUE
  /\ worker' = [s \in Seats |->
                  IF \E r \in DOMAIN rot : rot[r].seat = s /\ rot[r].status = "waiting_idle"
                  THEN [Asleep EXCEPT !.pc = "look"] ELSE Asleep]
  /\ UNCHANGED <<prov, seat, launch, rot, pane, conv, held, maker, clearer, asker,
                 creds, threads, seatCrashes, seatFaults>>

-----------------------------------------------------------------------------
(* Credential rotation *)

\* create_session_credential_rotation: an active or applied rotation answers for the new one.
RequestRotation(s) ==
  /\ GuardFree /\ seat[s].there
  /\ \/ /\ IsStopped(s)
        /\ rot' = FinalRot(s) /\ launch' = FinalLaunch(s)
        /\ UNCHANGED <<seat, asker>>
     \/ /\ ~IsStopped(s) /\ seat[s].thread # 0 /\ pane[s] = 0
        /\ MarkMissing(s)
        /\ asker' = asker
     \/ /\ ~IsStopped(s) /\ seat[s].thread # 0 /\ pane[s] # 0
        /\ \A r \in DOMAIN rot : rot[r].seat = s => rot[r].status = "failed"
        /\ Len(rot) < MaxRotations
        /\ rot' = Append(rot, [seat |-> s, status |-> "waiting_idle", launch |-> 0,
                               thread |-> seat[s].thread])
        /\ seat' = [seat EXCEPT ![s].proof = FALSE]
        /\ asker' = [asker EXCEPT ![s] = TRUE]
        /\ launch' = launch
  /\ UNCHANGED <<prov, pane, conv, held, maker, clearer, worker, serving, creds,
                 threads, seatCrashes, seatFaults>>

\* start_credential_rotation_worker: one worker per seat, registered until its thread ends.
StartWorker(s) ==
  /\ asker[s]
  /\ asker' = [asker EXCEPT ![s] = FALSE]
  /\ worker' = IF worker[s].pc = "none" THEN [worker EXCEPT ![s].pc = "look"] ELSE worker
  /\ UNCHANGED <<prov, seat, launch, rot, pane, conv, held, maker, clearer, serving,
                 creds, threads, seatCrashes, seatFaults>>

\* credential_rotation_has_fresh_idle_proof
IdleProof(s) == ~IsStopped(s) /\ (prov[s] = "codex" \/ (seat[s].status = "idle" /\ seat[s].proof))

RotationsIn(s, status) == {r \in DOMAIN rot : rot[r].seat = s /\ rot[r].status = status}

\* A rotation whose last attempt ended in an error is recovered from its launch.
Interrupted(s) == RotationsIn(s, "relaunching")

\* try_apply_waiting_credential_rotation: what it finds out before it takes the fences.  The
\* record is read under the guard, tmux is asked after it is let go.  An attached client, a
\* composer that is not ready, queued input or an open btw only make it wait longer.
WorkerLook(s) ==
  /\ GuardFree /\ worker[s].pc = "look"
  /\ LET waits == RotationsIn(s, "waiting_idle")
         again == Interrupted(s) IN
     worker' = [worker EXCEPT ![s] =
       CASE again # {} -> [pc |-> "recover", l |-> rot[Min(again)].launch, th |-> 0]
         [] again = {} /\ (waits = {} \/ ~seat[s].there) -> [Asleep EXCEPT !.pc = "exit"]
         [] OTHER -> [pc |-> IF IsStopped(s) THEN "final"
                             ELSE IF pane[s] = 0 THEN "missing"
                             ELSE IF IdleProof(s) THEN "fence" ELSE "look",
                      l |-> Min(waits), th |-> 0]]
  /\ UNCHANGED <<prov, seat, launch, rot, pane, conv, held, maker, clearer, asker, serving,
                 creds, threads, seatCrashes, seatFaults>>

\* finalize_terminal_credential_rotation and finalize_missing_runtime_credential_rotation act
\* on what was seen, not on what is there now.
WorkerFinal(s) ==
  /\ GuardFree /\ worker[s].pc \in {"final", "missing"}
  /\ rot' = FinalRot(s) /\ launch' = FinalLaunch(s)
  /\ seat' = IF worker[s].pc = "missing" /\ seat[s].there
             THEN [seat EXCEPT ![s].status = "stopped"] ELSE seat
  /\ worker' = [worker EXCEPT ![s] = [Asleep EXCEPT !.pc = "exit"]]
  /\ UNCHANGED <<prov, pane, conv, held, maker, clearer, asker, serving, creds,
                 threads, seatCrashes, seatFaults>>

\* Mutant: the rotation does not wait for a clear.
FencesFreeNoClearLock(s) == GuardFree

\* lock_credential_rotation_fences takes the clear lock, the guard and the input lock; a
\* deferred search after a create does not hold the clear lock.
FencesFree(s) == GuardFree /\ clearer[s].pc \in {"none", "rebind"}

WorkerFence(s) ==
  /\ worker[s].pc = "fence" /\ FencesFree(s)
  /\ LET r == worker[s].l
         Exit == worker' = [worker EXCEPT ![s] = [Asleep EXCEPT !.pc = "exit"]] IN
     \/ /\ rot[r].status # "waiting_idle" /\ Exit
        /\ UNCHANGED <<seat, launch, rot, held, creds>>
     \/ /\ rot[r].status = "waiting_idle"
        /\ \/ /\ pane[s] = 0 /\ MarkMissing(s)
           \/ /\ pane[s] # 0 /\ seat[s].there /\ IsStopped(s)
              /\ rot' = FinalRot(s) /\ launch' = FinalLaunch(s) /\ seat' = seat
           \/ /\ pane[s] # 0
              /\ ~seat[s].there \/ (LiveSeat(s) /\ seat[s].thread # rot[r].thread)
              /\ rot' = [rot EXCEPT ![r].status = "failed"] /\ UNCHANGED <<seat, launch>>
        /\ Exit /\ UNCHANGED <<held, creds>>
     \/ /\ rot[r].status = "waiting_idle" /\ pane[s] # 0
        /\ LiveSeat(s) /\ seat[s].thread = rot[r].thread
        /\ \/ /\ ~IdleProof(s)
              /\ worker' = [worker EXCEPT ![s] = [Asleep EXCEPT !.pc = "look"]]
              /\ UNCHANGED <<seat, launch, rot, held, creds>>
           \/ /\ IdleProof(s) /\ Len(launch) < MaxLaunches
              /\ launch' = Append(launch, LaunchRecord("recredential", s, rot[r].thread, r, FALSE))
              /\ rot' = [rot EXCEPT ![r].status = "relaunching", ![r].launch = Len(launch) + 1]
              /\ seat' = [seat EXCEPT ![s].status = "stopped", ![s].cred = creds + 1]
              /\ creds' = creds + 1
              /\ held' = Op("rotate", Len(launch) + 1, "kill")
              /\ worker' = [worker EXCEPT ![s] = [Asleep EXCEPT !.pc = "busy"]]
  /\ UNCHANGED <<prov, pane, conv, maker, clearer, asker, serving, threads,
                 seatCrashes, seatFaults>>

WorkerRecover(s) ==
  /\ GuardFree /\ worker[s].pc = "recover"
  /\ LET l == worker[s].l IN
     IF launch[l].status = "launching"
     THEN Recover(l)
     ELSE /\ worker' = [worker EXCEPT ![s].pc = "exit"]
          /\ UNCHANGED <<seat, launch, rot, pane, held, creds, seatFaults>>
  /\ UNCHANGED <<prov, conv, maker, clearer, asker, serving, threads, seatCrashes>>

\* The thread has left its loop and takes itself out of credential_rotation_workers.
WorkerExit(s) ==
  /\ worker[s].pc = "exit"
  /\ worker' = [worker EXCEPT ![s] = Asleep]
  /\ UNCHANGED <<prov, seat, launch, rot, pane, conv, held, maker, clearer, asker, serving,
                 creds, threads, seatCrashes, seatFaults>>

-----------------------------------------------------------------------------
(* Clearing a seat: clear_core_session_with_runtime *)

\* The clear lock of the seat and, for Codex, the binding lock of the directory are taken.
ClearBegin(s) ==
  /\ GuardFree /\ clearer[s] = Asleep /\ LiveSeat(s)
  /\ clearer' = [clearer EXCEPT ![s] = [pc |-> "type", l |-> 0, th |-> seat[s].thread]]
  /\ UNCHANGED <<prov, seat, launch, rot, pane, conv, held, maker, asker, worker, serving,
                 creds, threads, seatCrashes, seatFaults>>

\* The input lock of the pane keeps the keys of a clear out of a relaunch.
ClearType(s) ==
  /\ clearer[s].pc = "type"
  /\ ~(held.op \in {"rotate"} /\ Target = s)
  /\ \/ /\ pane[s] # 0 /\ threads < MaxThreads
        /\ threads' = threads + 1
        /\ conv' = [conv EXCEPT ![s] = threads + 1]
        /\ clearer' = [clearer EXCEPT ![s].pc = "commit"]
     \/ /\ pane[s] = 0
        /\ clearer' = [clearer EXCEPT ![s] = Asleep]
        /\ UNCHANGED <<threads, conv>>
  /\ UNCHANGED <<prov, seat, launch, rot, pane, held, maker, asker, worker, serving,
                 creds, seatCrashes, seatFaults>>

\* The new conversation is bound when it was found in time; Codex is searched on, with both
\* locks kept.  The record of a Claude seat learns of it only from the next hook.
ClearCommit(s) ==
  /\ GuardFree /\ clearer[s].pc = "commit"
  /\ \/ /\ IsStopped(s) \/ prov[s] = "claude"
        /\ clearer' = [clearer EXCEPT ![s] = Asleep]
        /\ seat' = seat /\ NoFault
     \/ /\ ~IsStopped(s) /\ prov[s] # "claude" /\ NoFault
        /\ clearer' = [clearer EXCEPT ![s] = Asleep]
        /\ seat' = [seat EXCEPT ![s].thread = conv[s],
                               ![s].proof = @ \/ prov[s] = "codex-fork"]
     \/ /\ ~IsStopped(s) /\ prov[s] # "claude" /\ Fault
        /\ clearer' = [clearer EXCEPT ![s] = IF prov[s] = "codex" THEN [@ EXCEPT !.pc = "bind"]
                                                                  ELSE Asleep]
        /\ seat' = [seat EXCEPT ![s].proof = @ \/ prov[s] = "codex-fork"]
  /\ UNCHANGED <<prov, launch, rot, pane, conv, held, maker, asker, worker, serving,
                 creds, threads, seatCrashes>>

\* complete_deferred_codex_cli_rebind: binds what it finds unless the seat stopped or was
\* bound to another conversation meanwhile; or it gives up.
BindCodex(s) ==
  /\ GuardFree /\ clearer[s].pc \in {"bind", "rebind"}
  /\ \/ /\ LiveSeat(s) /\ seat[s].thread = clearer[s].th /\ NoFault
        /\ seat' = [seat EXCEPT ![s].thread = conv[s]]
     \/ /\ ~(LiveSeat(s) /\ seat[s].thread = clearer[s].th) /\ NoFault
        /\ seat' = seat
     \/ Fault /\ seat' = seat
  /\ clearer' = [clearer EXCEPT ![s] = Asleep]
  /\ UNCHANGED <<prov, launch, rot, pane, conv, held, maker, asker, worker, serving,
                 creds, threads, seatCrashes>>

-----------------------------------------------------------------------------
(* What runtimes and the host do *)

\* Stop hook of Claude, turn completed in the event stream of a fork.  Both name the
\* conversation.
TurnEnds(s) ==
  /\ GuardFree /\ LiveSeat(s) /\ prov[s] # "codex" /\ pane[s] # 0
  /\ seat' = [seat EXCEPT ![s].status = "idle", ![s].proof = TRUE, ![s].thread = conv[s]]
  /\ UNCHANGED <<prov, launch, rot, pane, conv, held, maker, clearer, asker, worker, serving,
                 creds, threads, seatCrashes, seatFaults>>

\* Prompt hook, or turn started
TurnStarts(s) ==
  /\ GuardFree /\ LiveSeat(s) /\ pane[s] # 0
  /\ seat' = [seat EXCEPT ![s].status = "running", ![s].proof = TRUE]
  /\ UNCHANGED <<prov, launch, rot, pane, conv, held, maker, clearer, asker, worker, serving,
                 creds, threads, seatCrashes, seatFaults>>

\* apply_codex_fork_event_line: the terminal event of a fork whose runtime ends
ForkExits(s) ==
  /\ GuardFree /\ LiveSeat(s) /\ prov[s] = "codex-fork" /\ pane[s] # 0
  /\ MarkMissing(s)
  /\ UNCHANGED <<prov, pane, conv, held, maker, clearer, asker, worker, serving, creds,
                 threads, seatCrashes, seatFaults>>

\* deliver_runtime_text_to_session_raw: input for a seat whose runtime is gone
SendMissing(s) ==
  /\ GuardFree /\ LiveSeat(s) /\ pane[s] = 0
  /\ MarkMissing(s)
  /\ UNCHANGED <<prov, pane, conv, held, maker, clearer, asker, worker, serving, creds,
                 threads, seatCrashes, seatFaults>>

\* revive_stopped_tmux_client_session: somebody attaches to the runtime of a stopped fork.
Revive(s) ==
  /\ GuardFree /\ seat[s].there /\ prov[s] = "codex-fork"
  /\ seat[s].status = "stopped" /\ ~seat[s].retired /\ pane[s] # 0
  /\ seat' = [seat EXCEPT ![s].status = "idle", ![s].proof = TRUE]
  /\ UNCHANGED <<prov, launch, rot, pane, conv, held, maker, clearer, asker, worker, serving,
                 creds, threads, seatCrashes, seatFaults>>

PaneDies(s) ==
  /\ pane[s] # 0 /\ Fault
  /\ pane' = [pane EXCEPT ![s] = 0]
  /\ UNCHANGED <<prov, seat, launch, rot, conv, held, maker, clearer, asker, worker, serving,
                 creds, threads, seatCrashes>>

Crash ==
  /\ seatCrashes < SeatCrashes
  /\ seatCrashes' = seatCrashes + 1
  /\ serving' = FALSE /\ held' = NoOp
  /\ maker' = [s \in Seats |-> Asleep] /\ clearer' = maker' /\ worker' = maker'
  /\ asker' = [s \in Seats |-> FALSE]
  /\ UNCHANGED <<prov, seat, launch, rot, pane, conv, creds, threads, seatFaults>>

-----------------------------------------------------------------------------
SeatInit ==
  /\ prov \in [Seats -> Providers]
  /\ seat = [s \in Seats |-> NoSeat]
  /\ launch = <<>> /\ rot = <<>>
  /\ pane = [s \in Seats |-> 0] /\ conv = [s \in Seats |-> 0]
  /\ held = NoOp /\ serving = TRUE
  /\ maker = [s \in Seats |-> Asleep] /\ clearer = [s \in Seats |-> Asleep]
  /\ worker = [s \in Seats |-> Asleep] /\ asker = [s \in Seats |-> FALSE]
  /\ creds = 0 /\ threads = 0 /\ seatCrashes = 0 /\ seatFaults = 0

HeldStep == RetireKill \/ RetireCommit \/ KillOld \/ StartNew \/ Verify \/ CheckRotated \/ CommitLaunch

MakerStep(s) == MakerStart(s) \/ MakerWait(s) \/ MakerFailed(s) \/ MakerCommit(s)

WorkerStep(s) == StartWorker(s) \/ WorkerLook(s) \/ WorkerFinal(s) \/ WorkerFence(s)
                 \/ WorkerRecover(s) \/ WorkerExit(s)

SeatNext ==
  \/ HeldStep \/ StartupRecover \/ StartupDone \/ Crash
  \/ \E s \in Seats :
       \/ CreateBegin(s) \/ MakerStep(s) \/ RestoreBegin(s) \/ RetireBegin(s)
       \/ RequestRotation(s) \/ WorkerStep(s)
       \/ ClearBegin(s) \/ ClearType(s) \/ ClearCommit(s) \/ BindCodex(s)
       \/ TurnEnds(s) \/ TurnStarts(s) \/ ForkExits(s) \/ SendMissing(s) \/ Revive(s)
       \/ PaneDies(s)

\* The thread that holds the guard, the recovery loop of startup and a rotation worker run
\* without waiting for anybody; the guard is fair enough for a worker that polls it every
\* second.
SeatFairness ==
  /\ WF_seatVars(HeldStep) /\ WF_seatVars(StartupRecover) /\ WF_seatVars(StartupDone)
  /\ \A s \in Seats : SF_seatVars(WorkerStep(s))

SeatSpec == SeatInit /\ [][SeatNext]_seatVars /\ SeatFairness

-----------------------------------------------------------------------------
(* Properties *)

SeatTypeOK ==
  /\ \A s \in Seats : /\ seat[s].status \in {"stopped", "idle", "running"}
                      /\ seat[s].cred \in 0..creds /\ pane[s] \in 0..creds
                      /\ seat[s].thread \in 0..threads /\ conv[s] \in 0..threads
  /\ \A i \in DOMAIN launch : launch[i].status \in {"launching", "applied", "failed"}
  /\ \A r \in DOMAIN rot : rot[r].launch \in 0..Len(launch)

\* The runtime of a seat that counts as live holds the credential the registry knows, so that
\* its hooks and commands authenticate: creates, restores, rotations, recoveries and crashes
\* between any two of their steps leave them in agreement.  It is claimed for a fork while tmux
\* commands succeed: one whose old runtime could not be killed is revived with the credential
\* of the runtime that never started.
RuntimeAuthenticates ==
  \A s \in Seats :
    LiveSeat(s) /\ pane[s] # 0 /\ (prov[s] = "codex-fork" => seatFaults = 0)
      => pane[s] = seat[s].cred

\* No runtime is started for a retired seat except by a launch that somebody asked for as a
\* restore: neither a create nor a rotation that a restart finds unfinished revives one.
RetiredStaysDown ==
  [][\A s \in Seats : seat[s].retired /\ pane[s] = 0 /\ pane'[s] # 0 =>
       /\ held.op \in {"restore", "recover"}
       /\ Target = s /\ launch[held.l].kind = "restore"]_seatVars

\* Every rotation that is relaunching has a launch that recovery will find, a seat has at most
\* one active rotation, and no launch is left behind by a rotation that ended.
RotationBacked ==
  /\ \A r \in DOMAIN rot : rot[r].status = "relaunching" =>
       /\ rot[r].launch # 0 /\ launch[rot[r].launch].status = "launching"
       /\ launch[rot[r].launch].rot = r
  /\ \A r1, r2 \in DOMAIN rot : r1 # r2 /\ rot[r1].seat = rot[r2].seat =>
       ~ (rot[r1].status \in ActiveRotation /\ rot[r2].status \in ActiveRotation)
  /\ \A i \in DOMAIN launch : launch[i].kind = "recredential" /\ launch[i].status = "launching"
       => rot[launch[i].rot].status = "relaunching"

\* A rotation relaunches the conversation the runtime has at that moment, also when a clear
\* starts another one while the rotation waits.  A crash or a failed search in the middle of a
\* clear loses the new conversation, and so does any clear of a Claude seat.
RelaunchKeepsThread ==
  [][\A s \in Seats :
       held.op = "rotate" /\ Target = s /\ held.pc = "start" /\ pane'[s] # pane[s] /\ pane'[s] # 0
       /\ prov[s] # "claude" /\ seatFaults = 0 /\ seatCrashes = 0 => conv'[s] = conv[s]]_seatVars

RotationIs(r, statuses) == r \in DOMAIN rot /\ rot[r].status \in statuses

\* A rotation that has begun to relaunch its seat ends, whatever crashes.
RotationEnds ==
  \A r \in 1..MaxRotations : RotationIs(r, {"relaunching"}) ~> RotationIs(r, {"applied", "failed"})

\* What the registry says of a seat is what its runtime can rely on, whatever launch, rotation,
\* recovery or crash touched it last: the credential is the runtime's own, and a rotation under
\* way has its launch.
SeatConsistent == RuntimeAuthenticates /\ RotationBacked

\* A runtime is started for a seat only on behalf of somebody who wants it there, and a rotation
\* takes the conversation along.
SeatRelaunches == RetiredStaysDown /\ RelaunchKeepsThread
=============================================================================
