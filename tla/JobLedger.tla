----------------------------- MODULE JobLedger -----------------------------
(***************************************************************************)
(* What the queue runner promises to a requester, whatever its threads,    *)
(* processes, crashes and failed writes do: a submitted job is started at  *)
(* most once as far as the requester can see, gets one verdict that never  *)
(* changes, and the requester's mailbox receives at most one report, with  *)
(* that verdict, before the ledger claims that the report was sent.        *)
(***************************************************************************)
CONSTANTS Jobs, Verdicts

VARIABLES state,  \* state[j]: what a status query shows
          report, \* report[j]: the verdict in the requester's mailbox, or "none"
          told    \* told[j]: does the ledger claim that the report was sent?

ledger == <<state, report, told>>

Unfinished == {"pending", "running"}

LedgerTypeOK ==
  /\ state \in [Jobs -> {"absent"} \cup Unfinished \cup Verdicts]
  /\ report \in [Jobs -> {"none"} \cup Verdicts]
  /\ told \in [Jobs -> BOOLEAN]

LedgerInit ==
  /\ state = [j \in Jobs |-> "absent"]
  /\ report = [j \in Jobs |-> "none"]
  /\ told = [j \in Jobs |-> FALSE]

Submit(j) ==
  /\ state[j] = "absent"
  /\ state' = [state EXCEPT ![j] = "pending"]
  /\ UNCHANGED <<report, told>>

Begin(j) ==
  /\ state[j] = "pending"
  /\ state' = [state EXCEPT ![j] = "running"]
  /\ UNCHANGED <<report, told>>

Decide(j, v) ==
  /\ state[j] \in Unfinished
  /\ state' = [state EXCEPT ![j] = v]
  /\ UNCHANGED <<report, told>>

Report(j) ==
  /\ state[j] \in Verdicts /\ report[j] = "none"
  /\ report' = [report EXCEPT ![j] = state[j]]
  /\ UNCHANGED <<state, told>>

Tell(j) ==
  /\ report[j] # "none"
  /\ told' = [told EXCEPT ![j] = TRUE]
  /\ UNCHANGED <<state, report>>

LedgerNext ==
  \E j \in Jobs : \/ Submit(j) \/ Begin(j) \/ Report(j) \/ Tell(j)
                  \/ \E v \in Verdicts : Decide(j, v)

LedgerSpec == LedgerInit /\ [][LedgerNext]_ledger

=============================================================================
