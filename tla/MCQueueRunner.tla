--------------------------- MODULE MCQueueRunner ---------------------------
(***************************************************************************)
(* Instances of QueueRunner for TLC.                                       *)
(***************************************************************************)
EXTENDS QueueRunner, TLC

CONSTANTS j1, j2

OneJob  == {j1}
TwoJobs == {j1, j2}
Second  == {j2}

OnlyBackground    == j1 :> "background"
PerfAndBackground == (j1 :> "perf") @@ (j2 :> "background")
PerfAndTests      == (j1 :> "perf") @@ (j2 :> "tests")
TwoTests          == (j1 :> "tests") @@ (j2 :> "tests")

\* Two jobs in all and one of each type: the smallest configuration in which a
\* perf job finds background work to displace.
Caps(perf, service) ==
  [type \in Types |-> CASE type = "perf" -> perf [] type = "service" -> service [] OTHER -> 1]
OnePolicy == {[max |-> 2, cap |-> Caps(1, 0), cooldown |-> TRUE]}

\* The same, and a configuration that turns perf jobs off.
PerfOnOrOff == OnePolicy \cup {[max |-> 2, cap |-> Caps(0, 0), cooldown |-> FALSE]}

\* One job at a time.
Single == {[max |-> 1, cap |-> Caps(1, 0), cooldown |-> TRUE]}
=============================================================================
