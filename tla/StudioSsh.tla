----------------------------- MODULE StudioSsh ------------------------------
(***************************************************************************)
(* The on-demand "Studio SSH" toggle (studio_ssh.rs): two launchd agents,  *)
(* a loopback sshd and a tunnel that publishes it, which requests and a    *)
(* reconcile loop drive through launchctl. Requests run on threads of      *)
(* their own and record what is wanted only after their launchctl calls,   *)
(* so enabling, disabling and repairing interleave. launchd is external.   *)
(***************************************************************************)
EXTENDS Integers, Sequences

CONSTANTS
  Togglers,        \* the requests that can run at the same time
  MaxToggles,      \* bound: requests
  LaunchctlFaults, \* bound: launchctl calls that fail, and agents that crash
  StudioRestarts   \* bound: restarts of the server

ASSUME StudioSshAssumption ==
  /\ Togglers # {} /\ "loop" \notin Togglers
  /\ {MaxToggles, LaunchctlFaults, StudioRestarts} \subseteq Nat

VARIABLES
  launchd,  \* for each agent: may it be loaded, is it loaded, is it up
  wanted,   \* studio_ssh_enabled
  caller,   \* what a request or the loop is doing
  studioSpent     \* toggles, faults and restarts so far

studioVars == <<launchd, wanted, caller, studioSpent>>

LaunchAgents == {"sshd", "tunnel"}
Callers == Togglers \union {"loop"}
NoCall == [pc |-> "idle", want |-> FALSE, at |-> 0]
StudioCall(pc, want, at) == [pc |-> pc, want |-> want, at |-> at]

\* status: off unless both agents are loaded
StudioStatus ==
  CASE \E a \in LaunchAgents : ~launchd[a].loaded -> "off"
    [] \A a \in LaunchAgents : launchd[a].loaded /\ launchd[a].up -> "on"
    [] OTHER -> "starting"

\* enable: the sshd, then the tunnel. disable: the tunnel, then the sshd
Steps(want) ==
  IF want THEN <<<<"enable", "sshd">>, <<"bootstrap", "sshd">>, <<"enable", "tunnel">>, <<"bootstrap", "tunnel">>>>
  ELSE <<<<"bootout", "tunnel">>, <<"disable", "tunnel">>, <<"bootout", "sshd">>, <<"disable", "sshd">>>>

StudioInit ==
  /\ launchd = [a \in LaunchAgents |-> [allowed |-> FALSE, loaded |-> FALSE, up |-> FALSE]]
  /\ wanted = FALSE
  /\ caller = [c \in Callers |-> NoCall]
  /\ studioSpent = [toggles |-> 0, faults |-> 0, restarts |-> 0]

\* set_studio_ssh
Toggle(c, want) ==
  /\ c \in Togglers /\ caller[c] = NoCall /\ studioSpent.toggles < MaxToggles
  /\ caller' = [caller EXCEPT ![c] = StudioCall("run", want, 1)]
  /\ studioSpent' = [studioSpent EXCEPT !.toggles = @ + 1]
  /\ UNCHANGED <<launchd, wanted>>

\* set_studio_ssh records the wish after the calls, whatever came of them
RecordWish(c) ==
  /\ caller[c].pc = "store"
  /\ wanted' = caller[c].want
  /\ caller' = [caller EXCEPT ![c] = NoCall]
  /\ UNCHANGED <<launchd, studioSpent>>

\* reconcile: what is wanted and not so
NeedsRepair(want) == IF want THEN StudioStatus # "on" ELSE StudioStatus # "off"

\* The loop of main: agents that were started have come up, or failed, within its 30 s
ReconcileTick ==
  /\ caller["loop"] = NoCall
  /\ \A a \in LaunchAgents : launchd[a].loaded => launchd[a].up
  /\ NeedsRepair(wanted)
  /\ caller' = [caller EXCEPT !["loop"] = StudioCall("run", wanted, 1)]
  /\ UNCHANGED <<launchd, wanted, studioSpent>>

After(c) ==
  LET done == caller[c].at = Len(Steps(caller[c].want)) IN
  IF ~done THEN [caller[c] EXCEPT !.at = @ + 1]
  ELSE IF c = "loop" THEN NoCall ELSE [caller[c] EXCEPT !.pc = "store"]

AfterError(c) == IF c = "loop" THEN NoCall ELSE [caller[c] EXCEPT !.pc = "store"]

\* launchctl enable: its exit is ignored
CallEnable(c, a) ==
  /\ launchd' = [launchd EXCEPT ![a].allowed = TRUE]
  /\ caller' = [caller EXCEPT ![c] = After(c)]

\* launchctl bootstrap and kickstart -k, and the look whether the agent is loaded
CallBootstrap(c, a) ==
  /\ launchd' = [launchd EXCEPT ![a].loaded = @ \/ launchd[a].allowed, ![a].up = FALSE]
  /\ caller' = [caller EXCEPT ![c] = IF launchd'[a].loaded THEN After(c) ELSE AfterError(c)]

\* launchctl bootout: an agent that is not loaded is no error
CallBootout(c, a) ==
  /\ launchd' = [launchd EXCEPT ![a].loaded = FALSE, ![a].up = FALSE]
  /\ caller' = [caller EXCEPT ![c] = After(c)]

\* launchctl disable makes off durable
CallDisable(c, a) ==
  /\ launchd' = [launchd EXCEPT ![a].allowed = FALSE]
  /\ caller' = [caller EXCEPT ![c] = After(c)]

\* enable_agent, disable_agent
Call(c) ==
  /\ caller[c].pc = "run"
  /\ LET s == Steps(caller[c].want)[caller[c].at] IN
     \/ s[1] = "enable" /\ CallEnable(c, s[2])
     \/ s[1] = "bootstrap" /\ CallBootstrap(c, s[2])
     \/ s[1] = "bootout" /\ CallBootout(c, s[2])
     \/ s[1] = "disable" /\ CallDisable(c, s[2])
  /\ UNCHANGED <<wanted, studioSpent>>

\* run_launchctl fails or times out; only enable does not mind
CallFails(c) ==
  /\ caller[c].pc = "run" /\ studioSpent.faults < LaunchctlFaults
  /\ LET s == Steps(caller[c].want)[caller[c].at] IN
     caller' = [caller EXCEPT ![c] = IF s[1] = "enable" \/ (s[1] = "bootstrap" /\ launchd[s[2]].loaded)
                                     THEN After(c) ELSE AfterError(c)]
  /\ studioSpent' = [studioSpent EXCEPT !.faults = @ + 1]
  /\ UNCHANGED <<launchd, wanted>>

\* The loaded agent listens, or its tunnel connects
ComesUp(a) ==
  /\ launchd[a].loaded /\ ~launchd[a].up
  /\ launchd' = [launchd EXCEPT ![a].up = TRUE]
  /\ UNCHANGED <<wanted, caller, studioSpent>>

\* An agent is unloaded behind the server's back
AgentLost(a) ==
  /\ launchd[a].loaded /\ studioSpent.faults < LaunchctlFaults
  /\ launchd' = [launchd EXCEPT ![a].loaded = FALSE, ![a].up = FALSE]
  /\ studioSpent' = [studioSpent EXCEPT !.faults = @ + 1]
  /\ UNCHANGED <<wanted, caller>>

\* The server starts again and takes what it finds for what is wanted
StudioRestart ==
  /\ studioSpent.restarts < StudioRestarts
  /\ wanted' = (\A a \in LaunchAgents : launchd[a].loaded)
  /\ caller' = [c \in Callers |-> NoCall]
  /\ studioSpent' = [studioSpent EXCEPT !.restarts = @ + 1]
  /\ UNCHANGED launchd

StudioNext ==
  \/ \E c \in Togglers, want \in BOOLEAN : Toggle(c, want)
  \/ \E c \in Callers : Call(c) \/ CallFails(c) \/ RecordWish(c)
  \/ \E a \in LaunchAgents : ComesUp(a) \/ AgentLost(a)
  \/ ReconcileTick \/ StudioRestart

\* Threads go on, the loop ticks, and launchd brings its agents up
StudioFairness ==
  /\ \A c \in Callers : WF_studioVars(Call(c) \/ RecordWish(c))
  /\ \A a \in LaunchAgents : WF_studioVars(ComesUp(a))
  /\ WF_studioVars(ReconcileTick)

StudioSpec == StudioInit /\ [][StudioNext]_studioVars /\ StudioFairness

-----------------------------------------------------------------------------
StudioTypeOK ==
  /\ launchd \in [LaunchAgents -> [allowed : BOOLEAN, loaded : BOOLEAN, up : BOOLEAN]]
  /\ wanted \in BOOLEAN
  /\ caller \in [Callers -> [pc : {"idle", "run", "store"}, want : BOOLEAN, at : 0..4]]
  /\ studioSpent \in [toggles : 0..MaxToggles, faults : 0..LaunchctlFaults, restarts : 0..StudioRestarts]

\* Once requests and failures stop, the agents come to what is wanted and stay there: published when
\* it is on, and not when it is off, whatever requests, repairs and restarts crossed on the way.
StudioFollows == <>[](StudioStatus = IF wanted THEN "on" ELSE "off")
=============================================================================
