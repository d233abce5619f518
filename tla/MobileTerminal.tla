--------------------------- MODULE MobileTerminal ---------------------------
(***************************************************************************)
(* The phones of one user and the terminals they open (mobile_devices.rs,   *)
(* http.rs): enrollment through a pairing token by a listener of its own    *)
(* process, the Cloudflare policy both processes edit, tickets, the web     *)
(* socket that trades a ticket for a bridge to tmux, revocation and the     *)
(* switch that turns the feature off.  A handler is cut where it lets go of *)
(* a lock, a transaction or a call, so that the others move in between.     *)
(***************************************************************************)
EXTENDS Integers, FiniteSets

CONSTANTS
  Devices,          \* the phones
  FirstDevices,     \* the phones enrolled before
  AttachLimit,      \* max_concurrent_attaches
  PairingAttempts,  \* failed attempts a pairing token survives
  MaxPairings,      \* bound: pairing tokens
  MaxTickets,       \* bound: tickets
  MaxRevokes,       \* bound: revocations
  TerminalFaults,   \* bound: failed calls and bad frames
  TerminalRestarts  \* bound: restarts of the server

ASSUME TerminalAssumption ==
  /\ FirstDevices \subseteq Devices /\ AttachLimit \in Nat \ {0}
  /\ {PairingAttempts, MaxPairings, MaxTickets, MaxRevokes, TerminalFaults, TerminalRestarts} \subseteq Nat

VARIABLES
  enrolled,     \* mobile_device_enrollments
  pairing,      \* mobile_device_pairings: the latest token
  enroller,     \* the enrollment handler of each device
  allowlist,    \* the common names of the Cloudflare policy
  revokedKeys,  \* mobile_terminal_revoked_keys
  revoker,      \* the revocation handler of each device
  disabled,     \* mobile_terminal_runtime_disabled
  disabler,     \* the handler that turns the terminals off
  tickets,      \* mobile_terminal_tickets: ticket -> device
  issuer,       \* the ticket handler of each device: the ticket it is about to issue
  socket,       \* the web socket of each device
  active,       \* mobile_terminal_active_attaches, by the ticket they came from
  bridge,       \* the bridge of each ticket: how far it is, its stop flag, its tmux client
  spent         \* what has been used of the bounds

phoneVars == <<enrolled, pairing, enroller, allowlist>>
terminalVars == <<revokedKeys, revoker, disabled, disabler, tickets, issuer, socket, active, bridge>>
mobileVars == <<phoneVars, terminalVars, spent>>

TicketIds == 1..MaxTickets
NoBridge == [pc |-> "none", device |-> "nobody", stop |-> FALSE, client |-> FALSE]
NoSocket == [pc |-> "none", ticket |-> 0]
NoHandler == [pc |-> "none", names |-> {}]

Spend(what, bound) == spent[what] < bound /\ spent' = [spent EXCEPT ![what] = @ + 1]
Live(t) == bridge[t].pc \in {"starting", "attached", "ending"}

\* mobile_terminal_device_public_key: neither revoked here nor in the database
KeyRegistered(d) == d \notin revokedKeys /\ enrolled[d] = "active"

\* Tickets of a device
TicketsOf(d) == {t \in DOMAIN tickets : tickets[t] = d}
Without(ts) == [t \in DOMAIN tickets \ ts |-> tickets[t]]

-----------------------------------------------------------------------------
(* Enrollment, in the process of the pairing listener *)

\* create_pairing_registration
NewPairing == [state |-> "pending", failed |-> 0]

\* run_enroll_device: the device CA is there, the listener waits for the phone
CreatePairing ==
  /\ pairing.state # "pending" /\ Spend("pairings", MaxPairings)
  /\ pairing' = NewPairing
  /\ UNCHANGED <<enrolled, enroller, allowlist, terminalVars>>

\* The token runs out
PairingExpires ==
  /\ pairing.state = "pending" /\ pairing' = [pairing EXCEPT !.state = "expired"]
  /\ UNCHANGED <<enrolled, enroller, allowlist, terminalVars, spent>>

\* pending_pairing_registration
Eligible == pairing.state = "pending" /\ pairing.failed < PairingAttempts

\* complete_device_enrollment finds the token; the certificate takes its time
EnrollBegin(d) ==
  /\ enroller[d].pc = "none" /\ Eligible
  /\ enroller' = [enroller EXCEPT ![d].pc = "sign"]
  /\ UNCHANGED <<enrolled, pairing, allowlist, terminalVars, spent>>

\* record_pairing_failure
FailureRecorded == IF pairing.state = "pending" THEN [pairing EXCEPT !.failed = @ + 1] ELSE pairing

\* A bad request or key counts against the token; a certificate that cannot be signed does not
EnrollRejected(d) ==
  /\ enroller[d].pc = "sign" /\ Spend("faults", TerminalFaults)
  /\ pairing' \in {FailureRecorded, pairing}
  /\ enroller' = [enroller EXCEPT ![d] = NoHandler]
  /\ UNCHANGED <<enrolled, allowlist, terminalVars>>

\* complete_pairing_registration: the token is looked at again in the transaction
EnrollPair(d) ==
  /\ enroller[d].pc = "sign"
  /\ IF Eligible
       THEN /\ pairing' = [pairing EXCEPT !.state = "used"]
            /\ enrolled' = [enrolled EXCEPT ![d] = "active"]
            /\ enroller' = [enroller EXCEPT ![d].pc = "read"]
       ELSE enroller' = [enroller EXCEPT ![d] = NoHandler] /\ UNCHANGED <<pairing, enrolled>>
  /\ UNCHANGED <<allowlist, terminalVars, spent>>

\* sync_device_common_name reads the policy
EnrollRead(d) ==
  /\ enroller[d].pc = "read"
  /\ enroller' = [enroller EXCEPT ![d] = [pc |-> "write", names |-> allowlist]]
  /\ UNCHANGED <<enrolled, pairing, allowlist, terminalVars, spent>>

\* mutate_policy_common_name_allowlist
WithName(names, d, allowed) == IF allowed THEN names \union {d} ELSE names \ {d}

\* DevicePolicyRequest::execute writes back what it read, changed
EnrollWrite(d) ==
  /\ enroller[d].pc = "write"
  /\ allowlist' = WithName(enroller[d].names, d, TRUE)
  /\ enroller' = [enroller EXCEPT ![d] = NoHandler]
  /\ UNCHANGED <<enrolled, pairing, terminalVars, spent>>

\* The policy cannot be read or written: the enrollment is revoked again
EnrollPolicyFails(d) ==
  /\ enroller[d].pc \in {"read", "write"} /\ Spend("faults", TerminalFaults)
  /\ enrolled' = [enrolled EXCEPT ![d] = "revoked"]
  /\ enroller' = [enroller EXCEPT ![d] = NoHandler]
  /\ UNCHANGED <<pairing, allowlist, terminalVars>>

-----------------------------------------------------------------------------
(* Tickets *)

\* authorize_mobile_terminal_ticket_request; the ticket will be one that never was
IssueAuthorize(d) ==
  /\ issuer[d] = 0 /\ ~disabled /\ KeyRegistered(d) /\ Spend("tickets", MaxTickets)
  /\ issuer' = [issuer EXCEPT ![d] = spent.tickets + 1]
  /\ UNCHANGED <<phoneVars, revokedKeys, revoker, disabled, disabler, tickets, socket, active, bridge>>

\* Room for one more, counting the tickets that wait and the attaches
RoomFor(waiting) == Cardinality(DOMAIN waiting) + Cardinality(active) < AttachLimit

\* create_mobile_attach_ticket, under the lock of the tickets: the older tickets of the device
\* are dropped, the limits are enforced, the switch is looked at again
IssueTicket(d) ==
  /\ issuer[d] # 0
  /\ issuer' = [issuer EXCEPT ![d] = 0]
  /\ LET others == Without(TicketsOf(d))
         id == issuer[d]
     IN tickets' = IF RoomFor(others) /\ ~disabled
                     THEN [t \in DOMAIN others \union {id} |-> IF t = id THEN d ELSE others[t]]
                     ELSE others
  /\ UNCHANGED <<phoneVars, revokedKeys, revoker, disabled, disabler, socket, active, bridge, spent>>

\* cleanup_mobile_terminal_tickets
TicketExpires(t) ==
  /\ t \in DOMAIN tickets
  /\ tickets' = Without({t})
  /\ UNCHANGED <<phoneVars, revokedKeys, revoker, disabled, disabler, issuer, socket, active, bridge, spent>>

-----------------------------------------------------------------------------
(* The web socket *)

\* mobile_terminal_ticket_for_consume
SocketAuth(d) ==
  /\ socket[d].pc = "none" /\ ~disabled
  /\ \E t \in TicketsOf(d) : socket' = [socket EXCEPT ![d] = [pc |-> "ticket", ticket |-> t]]
  /\ UNCHANGED <<phoneVars, revokedKeys, revoker, disabled, disabler, tickets, issuer, active, bridge, spent>>

\* The device and the session are looked up, without the lock of the tickets
SocketCheck(d) ==
  /\ socket[d].pc = "ticket"
  /\ socket' = [socket EXCEPT ![d] = IF KeyRegistered(d) /\ ~disabled THEN [@ EXCEPT !.pc = "checked"]
                                     ELSE NoSocket]
  /\ UNCHANGED <<phoneVars, revokedKeys, revoker, disabled, disabler, tickets, issuer, active, bridge, spent>>

\* The ticket must still be there when it is traded
StillIssued(d, t) == t \in TicketsOf(d)

\* enforce_mobile_terminal_active_limits, and the trade of the ticket for an attach
SocketAttach(d) ==
  /\ socket[d].pc = "checked"
  /\ socket' = [socket EXCEPT ![d] = NoSocket]
  /\ LET t == socket[d].ticket IN
       IF StillIssued(d, t) /\ Cardinality(active) < AttachLimit
         THEN /\ tickets' = Without({t})
              /\ active' = active \union {t}
              /\ bridge' = [bridge EXCEPT ![t] = [NoBridge EXCEPT !.pc = "starting", !.device = d]]
         ELSE UNCHANGED <<tickets, active, bridge>>
  /\ UNCHANGED <<phoneVars, revokedKeys, revoker, disabled, disabler, issuer, spent>>

-----------------------------------------------------------------------------
(* The bridge *)

\* run_mobile_terminal_bridge_inner: not without an attach of the device, nor when the phone
\* detaches while its size is awaited; otherwise a tmux client is started
BridgeStart(t) ==
  /\ bridge[t].pc = "starting"
  /\ \/ /\ ~disabled /\ \E u \in active : bridge[u].device = bridge[t].device
        /\ bridge' = [bridge EXCEPT ![t].pc = "attached", ![t].client = TRUE]
     \/ bridge' = [bridge EXCEPT ![t].pc = "ending"]
  /\ UNCHANGED <<phoneVars, revokedKeys, revoker, disabled, disabler, tickets, issuer, socket, active, spent>>

\* What follows the loop: the stop flag is raised and the client killed
LeftLoop(t) == [bridge EXCEPT ![t].pc = "ending", ![t].stop = TRUE, ![t].client = FALSE]

\* The loop ends: the time is up, tmux or the phone is gone, or the stop flag made the reader of
\* the output close its channel
BridgeLeaves(t) ==
  /\ bridge[t].pc = "attached"
  /\ bridge' = LeftLoop(t)
  /\ UNCHANGED <<phoneVars, revokedKeys, revoker, disabled, disabler, tickets, issuer, socket, active, spent>>

Frames == {"input", "too large", "key", "resize", "ping", "detach"}

\* process_mobile_terminal_client_frame: a detach, too long an input, or an input, a key or a
\* size that tmux does not take ends the loop; the rest is answered and the bridge goes on
FrameEnds(frame, taken) == frame \in {"detach", "too large"} \/ (frame \in {"input", "key", "resize"} /\ ~taken)

\* The loop handles a frame of the phone
ClientFrame(t) ==
  /\ bridge[t].pc = "attached"
  /\ \E frame \in Frames, taken \in BOOLEAN :
       bridge' = IF FrameEnds(frame, taken) THEN LeftLoop(t) ELSE bridge
  /\ UNCHANGED <<phoneVars, revokedKeys, revoker, disabled, disabler, tickets, issuer, socket, active, spent>>

\* A message that is no frame ends the function at once: no stop flag, no kill
BadFrame(t) ==
  /\ bridge[t].pc = "attached" /\ Spend("faults", TerminalFaults)
  /\ bridge' = [bridge EXCEPT ![t].pc = "ending"]
  /\ UNCHANGED <<phoneVars, revokedKeys, revoker, disabled, disabler, tickets, issuer, socket, active>>

\* mobile_terminal_output_reader: with nobody to send to, the next output ends the client
OrphanOutput(t) ==
  /\ bridge[t].client /\ bridge[t].pc \in {"ending", "gone"}
  /\ bridge' = [bridge EXCEPT ![t].client = FALSE]
  /\ UNCHANGED <<phoneVars, revokedKeys, revoker, disabled, disabler, tickets, issuer, socket, active, spent>>

\* remove_mobile_terminal_active_attach
Freed(t) == active \ {t}

\* run_mobile_terminal_bridge gives the place back, however the bridge ended
BridgeEnds(t) ==
  /\ bridge[t].pc = "ending"
  /\ active' = Freed(t)
  /\ bridge' = [bridge EXCEPT ![t].pc = "gone"]
  /\ UNCHANGED <<phoneVars, revokedKeys, revoker, disabled, disabler, tickets, issuer, socket, spent>>

-----------------------------------------------------------------------------
(* Revocation, and the switch *)

\* resolve_mobile_terminal_revoke_target: a device the user has or had; the policy is read
RevokeBegin(d) ==
  /\ revoker[d].pc = "none" /\ enrolled[d] # "none" /\ Spend("revokes", MaxRevokes)
  /\ revoker' = [revoker EXCEPT ![d] = [pc |-> "policy", names |-> allowlist]]
  /\ UNCHANGED <<phoneVars, revokedKeys, disabled, disabler, tickets, issuer, socket, active, bridge>>

\* The policy is written, or the handler fails here
RevokePolicy(d) ==
  /\ revoker[d].pc = "policy"
  /\ \/ /\ allowlist' = WithName(revoker[d].names, d, FALSE)
        /\ revoker' = [revoker EXCEPT ![d] = [NoHandler EXCEPT !.pc = "database"]]
        /\ UNCHANGED spent
     \/ /\ Spend("faults", TerminalFaults)
        /\ revoker' = [revoker EXCEPT ![d] = NoHandler]
        /\ UNCHANGED allowlist
  /\ UNCHANGED <<enrolled, pairing, enroller, revokedKeys, disabled, disabler, tickets, issuer, socket,
                 active, bridge>>

\* revoke_device
RevokeDatabase(d) ==
  /\ revoker[d].pc = "database"
  /\ enrolled' = [enrolled EXCEPT ![d] = IF @ = "active" THEN "revoked" ELSE @]
  /\ revoker' = [revoker EXCEPT ![d].pc = "keys"]
  /\ UNCHANGED <<pairing, enroller, allowlist, revokedKeys, disabled, disabler, tickets, issuer, socket,
                 active, bridge, spent>>

\* Mutant: the attaches are cut before the tickets
AfterKeysActive(pc) == CASE pc = "keys" -> "active" [] pc = "active" -> "tickets" [] OTHER -> "stop"

\* The order of revoke_mobile_terminal_device_in_state, one lock after the other
AfterLock(pc) == CASE pc = "keys" -> "tickets" [] pc = "tickets" -> "active" [] OTHER -> "stop"

StopOf(ts) == [t \in TicketIds |-> IF t \in ts /\ Live(t) THEN [bridge[t] EXCEPT !.stop = TRUE] ELSE bridge[t]]

BridgesOf(d) == {t \in TicketIds : bridge[t].device = d}

\* revoke_mobile_terminal_device_in_state: the key, the tickets, the attaches of the device
RevokeInState(d) ==
  /\ revoker[d].pc \in {"keys", "tickets", "active"}
  /\ revokedKeys' = IF revoker[d].pc = "keys" THEN revokedKeys \union {d} ELSE revokedKeys
  /\ tickets' = IF revoker[d].pc = "tickets" THEN Without(TicketsOf(d)) ELSE tickets
  /\ active' = IF revoker[d].pc = "active" THEN active \ BridgesOf(d) ELSE active
  /\ revoker' = [revoker EXCEPT ![d] =
       [pc |-> AfterLock(revoker[d].pc),
        names |-> IF revoker[d].pc = "active" THEN active \intersect BridgesOf(d) ELSE @.names]]
  /\ UNCHANGED <<phoneVars, disabled, disabler, issuer, socket, bridge, spent>>

\* The handler raises the stop flags of the attaches it removed
RevokeStop(d) ==
  /\ revoker[d].pc = "stop"
  /\ bridge' = StopOf(revoker[d].names)
  /\ revoker' = [revoker EXCEPT ![d] = NoHandler]
  /\ UNCHANGED <<phoneVars, revokedKeys, disabled, disabler, tickets, issuer, socket, active, spent>>

\* disable_mobile_terminal: the switch, the tickets, the attaches, their stop flags
Disable ==
  /\ \/ /\ disabler.pc = "none" /\ ~disabled
        /\ disabled' = TRUE /\ disabler' = [disabler EXCEPT !.pc = "tickets"]
        /\ UNCHANGED <<tickets, active, bridge>>
     \/ /\ disabler.pc = "tickets"
        /\ tickets' = Without(DOMAIN tickets) /\ disabler' = [disabler EXCEPT !.pc = "active"]
        /\ UNCHANGED <<disabled, active, bridge>>
     \/ /\ disabler.pc = "active"
        /\ active' = {} /\ disabler' = [pc |-> "stop", names |-> active]
        /\ UNCHANGED <<disabled, tickets, bridge>>
     \/ /\ disabler.pc = "stop"
        /\ bridge' = StopOf(disabler.names) /\ disabler' = NoHandler
        /\ UNCHANGED <<disabled, tickets, active>>
  /\ UNCHANGED <<phoneVars, revokedKeys, revoker, issuer, socket, spent>>

\* The server restarts: everything but the database and the policy is forgotten
TerminalRestart ==
  /\ Spend("restarts", TerminalRestarts)
  /\ revokedKeys' = {} /\ revoker' = [d \in Devices |-> NoHandler] /\ disabled' = FALSE /\ disabler' = NoHandler
  /\ tickets' = <<>> /\ issuer' = [d \in Devices |-> 0] /\ socket' = [d \in Devices |-> NoSocket]
  /\ active' = {}
  /\ bridge' = [t \in TicketIds |-> IF bridge[t].pc = "none" THEN NoBridge
                                    ELSE [bridge[t] EXCEPT !.pc = "gone", !.client = FALSE]]
  /\ UNCHANGED phoneVars

-----------------------------------------------------------------------------
MobileInit ==
  /\ enrolled = [d \in Devices |-> IF d \in FirstDevices THEN "active" ELSE "none"]
  /\ pairing = [state |-> "none", failed |-> 0] /\ enroller = [d \in Devices |-> NoHandler]
  /\ allowlist = FirstDevices
  /\ revokedKeys = {} /\ revoker = [d \in Devices |-> NoHandler] /\ disabled = FALSE /\ disabler = NoHandler
  /\ tickets = <<>> /\ issuer = [d \in Devices |-> 0] /\ socket = [d \in Devices |-> NoSocket]
  /\ active = {} /\ bridge = [t \in TicketIds |-> NoBridge]
  /\ spent = [pairings |-> 0, tickets |-> 0, revokes |-> 0, faults |-> 0, restarts |-> 0]

MobileNext ==
  \/ CreatePairing \/ PairingExpires \/ Disable \/ TerminalRestart
  \/ \E d \in Devices :
       \/ EnrollBegin(d) \/ EnrollRejected(d) \/ EnrollPair(d) \/ EnrollRead(d) \/ EnrollWrite(d)
       \/ EnrollPolicyFails(d)
       \/ IssueAuthorize(d) \/ IssueTicket(d)
       \/ SocketAuth(d) \/ SocketCheck(d) \/ SocketAttach(d)
       \/ RevokeBegin(d) \/ RevokePolicy(d) \/ RevokeDatabase(d) \/ RevokeInState(d) \/ RevokeStop(d)
  \/ \E t \in TicketIds :
       \/ TicketExpires(t) \/ BridgeStart(t) \/ BridgeLeaves(t) \/ ClientFrame(t) \/ BadFrame(t)
       \/ OrphanOutput(t) \/ BridgeEnds(t)

MobileSpec == MobileInit /\ [][MobileNext]_mobileVars

-----------------------------------------------------------------------------
(* Properties *)

\* The types of the terminals' state
MobileTypeOK ==
  /\ enrolled \in [Devices -> {"none", "active", "revoked"}]
  /\ pairing.state \in {"none", "pending", "used", "expired"} /\ pairing.failed \in 0..TerminalFaults
  /\ allowlist \subseteq Devices /\ revokedKeys \subseteq Devices
  /\ DOMAIN tickets \subseteq TicketIds /\ active \subseteq TicketIds
  /\ \A t \in TicketIds : bridge[t].pc \in {"none", "starting", "attached", "ending", "gone"}

\* Once the revocation of a device has answered, no terminal of it goes on: a ticket or a web
\* socket that was under way when the key, the tickets and the attaches were cut one after the
\* other does not end in a bridge nobody stops (revoke_mobile_terminal_device_in_state)
RevokedIsCut ==
  \A d \in revokedKeys : revoker[d].pc = "none" =>
    \A t \in BridgesOf(d) : bridge[t].pc \in {"starting", "attached"} => bridge[t].stop \/ disabled

\* The places of the limit are taken by bridges that run: however a bridge ends, and whatever
\* revocation and the switch removed meanwhile, its place comes back
SlotsAreLive == \A t \in active : Live(t)

\* A ticket is traded once, and never for more terminals than the limit allows
AttachesBounded ==
  Cardinality(active) <= AttachLimit /\ \A t \in active : t \notin DOMAIN tickets

\* A revoked device has no terminal left, and neither cut nor failed terminals use up the limit.
TerminalsAreCut == RevokedIsCut /\ SlotsAreLive /\ AttachesBounded
=============================================================================
