----------------------------- MODULE PaneInput ------------------------------
(***************************************************************************)
(* Typing into terminals (runtime.rs): several tmux calls make up one      *)
(* message, so a caller holds the terminal's input lock meanwhile. The     *)
(* locks live in a registry of weak references: a lock exists as long as   *)
(* some caller holds on to it, and the registry forgets the others. The    *)
(* callers are the handlers that send to one session, to a list of them,   *)
(* and to all of them (http.rs). Whether a message is typed or queued is   *)
(* the subject of Delivery; here it is a choice.                           *)
(***************************************************************************)
EXTENDS Integers, FiniteSets, FiniteSetsExt, SequencesExt

CONSTANTS
  Handlers,      \* the handlers that run at the same time
  SendPlans,     \* {"one", "batch", "all"}: what they send
  TypeFaults,    \* bound: tmux calls that fail
  PaneDeaths     \* bound: terminals that end

ASSUME PaneInputAssumption ==
  /\ IsFiniteSet(Handlers)
  /\ SendPlans \subseteq {"one", "batch", "all"}
  /\ {TypeFaults, PaneDeaths} \subseteq Nat

VARIABLES
  panes,     \* the terminals that exist
  lockOf,    \* SESSION_INPUT_LOCKS: for each terminal a lock, or 0
  heldLocks, \* the locks whose flag is set
  sender,    \* the callers
  keys,      \* what was typed into each terminal: the caller and the number of the call
  paneUsed   \* faults and deaths so far

paneVars == <<panes, lockOf, heldLocks, sender, keys, paneUsed>>

Panes == {"x", "y"}
LockIds == 1..(Cardinality(Handlers) + Cardinality(Panes))
Parts == 3   \* Escape or the first chunk, the rest of the text, Enter

\* A name may be an alias; "app" has no terminal, "gone" is no session
PaneOf(name) == IF name \in {"x", "alias"} THEN "x" ELSE name

\* unique_identifiers
UniqueIdentifiers(names) ==
  FoldLeft(LAMBDA out, n : IF Contains(out, n) THEN out ELSE Append(out, n), <<>>, names)

\* send_session_input, send_session_input_batch, client_request_status: the names they send to
Recipients == [one |-> <<"x">>, all |-> <<"x", "app", "y">>,
               batch |-> UniqueIdentifiers(<<"x", "gone", "alias", "x">>)]

NotSending == [plan |-> "none", at |-> 1, pc |-> "idle", lock |-> 0, part |-> 1, results |-> <<>>]

\* The strong count of a lock
Strong(l) == {c \in Handlers : sender[c].lock = l}

PaneInit ==
  /\ panes = Panes
  /\ lockOf = [p \in Panes |-> 0]
  /\ heldLocks = {}
  /\ sender = [c \in Handlers |-> NotSending]
  /\ keys = [p \in Panes |-> <<>>]
  /\ paneUsed = [faults |-> 0, deaths |-> 0]

Name(c) == Recipients[sender[c].plan][sender[c].at]
TargetPane(c) == PaneOf(Name(c))

\* A request arrives
BeginSend(c, plan) ==
  /\ sender[c] = NotSending
  /\ sender' = [sender EXCEPT ![c].plan = plan, ![c].pc = "next"]
  /\ UNCHANGED <<panes, lockOf, heldLocks, keys, paneUsed>>

Result(s, r) == [s EXCEPT !.results = Append(@, r), !.at = @ + 1, !.pc = "next"]

\* send_session_input_batch_one and the loop of client_request_status: what needs no terminal
SendOne(c) ==
  /\ sender[c].pc = "next" /\ sender[c].at <= Len(Recipients[sender[c].plan])
  /\ sender' = [sender EXCEPT ![c] =
       IF Name(c) \in {"gone", "app"} THEN Result(@, "failed") ELSE [@ EXCEPT !.pc = "choose"]]
  /\ UNCHANGED <<panes, lockOf, heldLocks, keys, paneUsed>>

\* send_core_input_with_runtime: the session takes the message now, or it is queued
QueueOrType(c, now) ==
  /\ sender[c].pc = "choose"
  /\ sender' = [sender EXCEPT ![c] = IF now THEN [@ EXCEPT !.pc = "look"] ELSE Result(@, "queued")]
  /\ UNCHANGED <<panes, lockOf, heldLocks, keys, paneUsed>>

\* The answer counts the results
AnswerSend(c) ==
  /\ sender[c].pc = "next" /\ sender[c].at > Len(Recipients[sender[c].plan])
  /\ sender' = [sender EXCEPT ![c].pc = "done"]
  /\ UNCHANGED <<panes, lockOf, heldLocks, keys, paneUsed>>

\* Mutant: only locks that are held are kept
RetainHeld(p) == lockOf[p] \in heldLocks

\* retain and upgrade: the registry's lock is still someone's
StillShared(p) == lockOf[p] # 0 /\ Strong(lockOf[p]) # {}

\* lock_session_input, under the registry's mutex: the lock of the terminal, or a new one
LookUp(c) ==
  /\ sender[c].pc = "look"
  /\ LET p     == TargetPane(c)
         fresh == Min({l \in LockIds : Strong(l) = {} /\ \A q \in Panes : lockOf[q] # l})
         l     == IF StillShared(p) THEN lockOf[p] ELSE fresh
     IN /\ lockOf' = [q \in Panes |-> IF q = p THEN l ELSE IF StillShared(q) THEN lockOf[q] ELSE 0]
        /\ sender' = [sender EXCEPT ![c].lock = l, ![c].pc = "check"]
        /\ heldLocks' = IF StillShared(p) THEN heldLocks ELSE heldLocks \ {l}
  /\ UNCHANGED <<panes, keys, paneUsed>>

\* lock_session_input, under the lock's mutex: take it, or wait on the condition
TakeOrWait(c) ==
  /\ sender[c].pc = "check"
  /\ IF sender[c].lock \in heldLocks
     THEN sender' = [sender EXCEPT ![c].pc = "wait"] /\ UNCHANGED heldLocks
     ELSE /\ sender' = [sender EXCEPT ![c].pc = "type", ![c].part = 1]
          /\ heldLocks' = heldLocks \union {sender[c].lock}
  /\ UNCHANGED <<panes, lockOf, keys, paneUsed>>

\* A wait may end for no reason
WakeSpuriously(c) ==
  /\ sender[c].pc = "wait"
  /\ sender' = [sender EXCEPT ![c].pc = "check"]
  /\ UNCHANGED <<panes, lockOf, heldLocks, keys, paneUsed>>

\* send_input_while_locked, send_urgent_input_while_locked: session_exists, then call by call
TypePart(c) ==
  /\ sender[c].pc = "type"
  /\ IF sender[c].part = 1 /\ TargetPane(c) \notin panes
     THEN sender' = [sender EXCEPT ![c].pc = "missing"] /\ UNCHANGED keys
     ELSE IF TargetPane(c) \notin panes
     THEN sender' = [sender EXCEPT ![c].pc = "error"] /\ UNCHANGED keys
     ELSE /\ keys' = [keys EXCEPT ![TargetPane(c)] = Append(@, <<c, sender[c].part>>)]
          /\ sender' = [sender EXCEPT ![c] = IF @.part = Parts THEN [@ EXCEPT !.pc = "typed"]
                                                              ELSE [@ EXCEPT !.part = @ + 1]]
  /\ UNCHANGED <<panes, lockOf, heldLocks, paneUsed>>

\* run_tmux fails: the error goes through to the answer, and the rest of the list is not tried
TypeFails(c) ==
  /\ sender[c].pc = "type" /\ paneUsed.faults < TypeFaults
  /\ sender' = [sender EXCEPT ![c].pc = "error"]
  /\ paneUsed' = [paneUsed EXCEPT !.faults = @ + 1]
  /\ UNCHANGED <<panes, lockOf, heldLocks, keys>>

Waiting(l) == {d \in Handlers : sender[d].pc = "wait" /\ sender[d].lock = l}

\* notify_one
Woken(l) == IF Waiting(l) = {} THEN {{}} ELSE {{d} : d \in Waiting(l)}

\* SessionInputGuard::drop clears the flag, wakes one, and lets go of the lock
Release(c) ==
  /\ sender[c].pc \in {"typed", "missing", "error"}
  /\ heldLocks' = heldLocks \ {sender[c].lock}
  /\ \E wake \in Woken(sender[c].lock) :
       sender' = [d \in Handlers |->
         IF d \in wake THEN [sender[d] EXCEPT !.pc = "check"]
         ELSE IF d # c THEN sender[d]
         ELSE LET free == [sender[c] EXCEPT !.lock = 0, !.part = 1] IN
              CASE free.pc = "typed" -> Result(free, "delivered")
                [] free.pc = "missing" -> Result(free, "failed")
                [] OTHER -> [free EXCEPT !.pc = "aborted"]]
  /\ UNCHANGED <<panes, lockOf, keys, paneUsed>>

TerminalEnds(p) ==
  /\ p \in panes /\ paneUsed.deaths < PaneDeaths
  /\ panes' = panes \ {p}
  /\ paneUsed' = [paneUsed EXCEPT !.deaths = @ + 1]
  /\ UNCHANGED <<lockOf, heldLocks, sender, keys>>

SendStep(c) ==
  \/ SendOne(c) \/ (\E now \in BOOLEAN : QueueOrType(c, now)) \/ AnswerSend(c)
  \/ LookUp(c) \/ TakeOrWait(c) \/ TypePart(c) \/ Release(c)

PaneNext ==
  \/ \E c \in Handlers : \/ \E plan \in SendPlans : BeginSend(c, plan)
                         \/ SendStep(c) \/ WakeSpuriously(c) \/ TypeFails(c)
  \/ \E p \in Panes : TerminalEnds(p)

\* A handler that runs goes on; nobody has to be woken for no reason
PaneFairness == \A c \in Handlers : WF_paneVars(SendStep(c))

PaneSpec == PaneInit /\ [][PaneNext]_paneVars /\ PaneFairness

-----------------------------------------------------------------------------
PaneTypeOK ==
  /\ panes \subseteq Panes /\ heldLocks \subseteq LockIds
  /\ lockOf \in [Panes -> LockIds \union {0}]
  /\ \A c \in Handlers :
       /\ sender[c].plan \in SendPlans \union {"none"}
       /\ sender[c].pc \in {"idle", "next", "choose", "look", "check", "wait", "type", "typed", "missing",
                            "error", "done", "aborted"}
       /\ sender[c].lock \in LockIds \union {0} /\ sender[c].part \in 1..Parts
       /\ \A i \in DOMAIN sender[c].results : sender[c].results[i] \in {"delivered", "queued", "failed"}

\* The messages that were typed whole into a terminal by a caller
Entered(c, p) == {k \in DOMAIN keys[p] : keys[p][k] = <<c, Parts>>}

\* A message reaches a terminal in one piece, whatever other callers type there at the same time; and
\* an answer has one result for each name it was asked to send to, with a message typed whole for
\* exactly the names it says it was delivered to.
SendsAreWhole ==
  /\ \A p \in Panes : \A k \in DOMAIN keys[p] :
       keys[p][k][2] > 1 => k > 1 /\ keys[p][k - 1] = <<keys[p][k][1], keys[p][k][2] - 1>>
  /\ \A c \in Handlers : sender[c].pc = "done" =>
       LET r == sender[c].results IN
       /\ Len(r) = Cardinality(ToSet(Recipients[sender[c].plan]))
       /\ \A p \in Panes : Cardinality(Entered(c, p)) =
            Cardinality({i \in DOMAIN r : r[i] = "delivered" /\ PaneOf(Recipients[sender[c].plan][i]) = p})

SendBegun(c) == sender[c].pc = "next"
SendOver(c) == sender[c].pc \in {"done", "aborted"}

\* Every request is answered: whoever waits for a terminal gets it, although a release wakes only one
\* of those who wait and the registry forgets a lock as soon as nobody holds on to it.
SendsEnd == \A c \in Handlers : SendBegun(c) ~> SendOver(c)
=============================================================================
