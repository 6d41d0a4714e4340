--------------------------- MODULE BroadcastFlags ---------------------------
(***************************************************************************)
(* How a device's broadcast flags get from a PATCH of the API to the Z21:  *)
(* the API server writes the spec and publishes a control command over     *)
(* NATS, the gateway keeps the flags in its session and sends them to the  *)
(* Z21, on each command and in the handshake of each new connection.       *)
(* A gateway reads the spec once, when it starts.                          *)
(***************************************************************************)
EXTENDS Integers, FiniteSets, Sequences, TLC

CONSTANTS
  Request,      \* PATCH requests that may be under way at once
  Flags,        \* values requested
  Default,      \* DefaultBroadcastFlags of the API type, when the spec has no value
  ProtocolDefault, \* protocol.DefaultBroadcastFlags of the Z21 library, for 0
  Unset,        \* no value, in the spec or at the Z21
  MaxRequests,  \* bound: requests in a behaviour
  MaxRestarts,  \* bound: restarts of the gateway
  MaxOutages,   \* bound: connections lost, or handshakes failed
  MaxFailures   \* bound: commands not published, and datagrams lost

ASSUME FlagsAssumption ==
  /\ Flags \subseteq Nat /\ {Default, ProtocolDefault} \subseteq Nat \ {0} /\ Unset \notin Nat
  /\ {MaxRequests, MaxRestarts, MaxOutages, MaxFailures} \subseteq Nat

VARIABLES
  spec,      \* spec.broadcastFlags of the Z21Device
  request,   \* by request: [step, flags, device]
  control,   \* commands the gateway's subscription has not handled yet
  gateway,   \* where Run stands: [step, asked], asked as read for the handshake
  session,   \* the session's flags
  command,   \* handleControlMessage: [step, flags, attached]
  station,   \* flags the Z21 has for the gateway's current connection
  doubtful,  \* the Z21 may not have the session's flags, see below
  missed,    \* the session may not have the spec's flags, see below
  requests, restarts, outages, failures

apiVars     == <<spec, request, requests, missed>>
gatewayVars == <<gateway, session, command, station, doubtful>>
bounds      == <<restarts, outages, failures>>
vars        == <<apiVars, control, gatewayVars, bounds>>

Waiting == [step |-> "idle"]

(* BroadcastFlagsValue: 0 is a value, and left out of a command's JSON it  *)
(* is 0 again when decoded.                                                *)
BroadcastFlagsValue(s) == IF s = Unset THEN Default ELSE s

flagsFrom0(flags) == flags     \* mutant: 0 is not replaced

flagsFrom(flags) == IF flags = 0 THEN ProtocolDefault ELSE flags

Effective(s) == flagsFrom(BroadcastFlagsValue(s))

Connected == gateway.step \in {"attached", "asking", "told", "bridged"}

Init ==
  /\ spec = Unset
  /\ request = [r \in Request |-> Waiting]
  /\ control = <<>>
  /\ gateway = [step |-> "off", asked |-> Unset]
  /\ session = ProtocolDefault
  /\ command = Waiting
  /\ station = Unset
  /\ doubtful = FALSE /\ missed = FALSE
  /\ requests = 0 /\ restarts = 0 /\ outages = 0 /\ failures = 0

-----------------------------------------------------------------------------
(***************************************************************************)
(* patchDevice in the API server: Get, merge patch, publish.  The answer   *)
(* to the patch is decoded into the device that is published.              *)
(*                                                                         *)
(* missed is kept for the properties: a request begins while another is    *)
(* under way, or its command is not published, or is published after the   *)
(* gateway read the spec and before it subscribed; the next request that   *)
(* begins alone clears it.                                                 *)
(***************************************************************************)
FetchDevice(r) ==
  /\ request[r] = Waiting
  /\ requests < MaxRequests
  /\ requests' = requests + 1
  /\ \E flags \in Flags :
       request' = [request EXCEPT ![r] = [step |-> "got", flags |-> flags, device |-> spec]]
  /\ missed' = (\E other \in Request : request[other] # Waiting)
  /\ UNCHANGED <<spec, control, gatewayVars, bounds>>

Patch(r) ==
  /\ request[r].step = "got"
  /\ spec' = IF request[r].flags = request[r].device THEN spec ELSE request[r].flags
  /\ request' = [request EXCEPT ![r].step = "patched", ![r].device = spec']
  /\ UNCHANGED <<requests, missed, control, gatewayVars, bounds>>

Answered(r) == request' = [request EXCEPT ![r] = Waiting]

At(step) == gateway.step = step

Subscribed == gateway.step \notin {"off", "read"}

(* NATS keeps nothing for a gateway that has not subscribed. *)
PublishSetBroadcastFlags(r) ==
  /\ request[r].step = "patched"
  /\ control' = IF Subscribed THEN Append(control, BroadcastFlagsValue(request[r].device))
                              ELSE control
  /\ missed' = (missed \/ At("read"))
  /\ Answered(r)
  /\ UNCHANGED <<spec, requests, gatewayVars, bounds>>

Fails == failures < MaxFailures /\ failures' = failures + 1

(* The command gets nowhere and the spec stays patched: there is no        *)
(* connection to NATS, which the client is told, or the command is lost    *)
(* from the connection's buffer after Publish returned nil, which it is    *)
(* not told.  Nobody acts on the answer, so both are one step, and a       *)
(* command that is lost later could as well have been lost here.           *)
PublishFails(r) ==
  /\ request[r].step = "patched"
  /\ Fails
  /\ missed' = TRUE
  /\ Answered(r)
  /\ UNCHANGED <<spec, requests, control, gatewayVars, restarts, outages>>

-----------------------------------------------------------------------------
(***************************************************************************)
(* Run in the gateway: read the flags, subscribe, then dial and shake      *)
(* hands again and again.                                                  *)
(***************************************************************************)
Goto(step) == gateway' = [gateway EXCEPT !.step = step]

ReadFlags ==
  /\ At("off")
  /\ Goto("read")
  /\ session' = flagsFrom(BroadcastFlagsValue(spec))
  /\ UNCHANGED <<command, station, doubtful>>

SubscribeControl ==
  /\ At("read")
  /\ Goto("dialing")
  /\ UNCHANGED <<session, command, station, doubtful>>

(* A new socket, which the Z21 does not know yet. *)
Attach ==
  /\ At("dialing")
  /\ Goto("attached")
  /\ station' = Unset
  /\ doubtful' = FALSE
  /\ UNCHANGED <<session, command>>

AskDefault ==     \* mutant: the handshake sets the flags the process began with
  /\ At("attached")
  /\ gateway' = [step |-> "asking", asked |-> ProtocolDefault]
  /\ UNCHANGED <<session, command, station, doubtful>>

Handshake ==
  /\ At("attached")
  /\ gateway' = [step |-> "asking", asked |-> session]
  /\ UNCHANGED <<session, command, station, doubtful>>

(* The set is not acknowledged; the system state asked for after it is.    *)
SetBroadcastFlags ==
  /\ At("asking")
  /\ Goto("told")
  /\ station' = gateway.asked
  /\ UNCHANGED <<session, command, doubtful>>

SetLost ==
  /\ At("asking")
  /\ Fails
  /\ Goto("told")
  /\ doubtful' = TRUE
  /\ UNCHANGED <<session, command, station>>

SystemState ==
  /\ At("told")
  /\ gateway' = [step |-> "bridged", asked |-> Unset]
  /\ UNCHANGED <<session, command, station, doubtful>>

Run == ReadFlags \/ SubscribeControl \/ Attach \/ Handshake \/ SetBroadcastFlags \/ SystemState

(* detach and Close: a handler that still holds this client fails to send. *)
Detach ==
  /\ Connected
  /\ gateway' = [step |-> "dialing", asked |-> Unset]
  /\ command' = IF command.step = "send" THEN [command EXCEPT !.attached = FALSE] ELSE command
  /\ station' = Unset
  /\ UNCHANGED <<session, doubtful>>

-----------------------------------------------------------------------------
(***************************************************************************)
(* handleControlMessage, one command after the other: applyBroadcastFlags  *)
(* sets the session's flags, reads flags and client, and sends.            *)
(***************************************************************************)
SetFlagsIfAttached ==     \* mutant: a command is dropped while there is no client
  /\ command = Waiting
  /\ control # <<>>
  /\ control' = Tail(control)
  /\ IF Connected
     THEN session' = flagsFrom(Head(control)) /\ command' = [step |-> "set"]
     ELSE UNCHANGED <<session, command>>
  /\ doubtful' = (doubtful \/ At("asking"))
  /\ UNCHANGED <<gateway, station>>

(* doubtful is kept for the properties: the flags change after the         *)
(* handshake read them and before it sends them, or a datagram is lost;    *)
(* the next one that arrives clears it.                                    *)
SetFlags ==
  /\ command = Waiting
  /\ control # <<>>
  /\ control' = Tail(control)
  /\ session' = flagsFrom(Head(control))
  /\ command' = [step |-> "set"]
  /\ doubtful' = (doubtful \/ At("asking"))
  /\ UNCHANGED <<gateway, station>>

ReadClient ==
  /\ command.step = "set"
  /\ command' = IF Connected THEN [step |-> "send", flags |-> session, attached |-> TRUE]
                             ELSE Waiting
  /\ UNCHANGED <<control, gateway, session, station, doubtful>>

Send ==
  /\ command.step = "send"
  /\ command' = Waiting
  /\ IF command.attached
     THEN station' = command.flags /\ doubtful' = (doubtful /\ At("asking"))
     ELSE UNCHANGED <<station, doubtful>>
  /\ UNCHANGED <<control, gateway, session>>

SendLost ==
  /\ command.step = "send"
  /\ Fails
  /\ command' = Waiting
  /\ doubtful' = (doubtful \/ command.attached)
  /\ UNCHANGED <<control, gateway, session, station>>

handleControlMessage == SetFlags \/ ReadClient \/ Send

-----------------------------------------------------------------------------
Outage ==
  /\ outages < MaxOutages
  /\ outages' = outages + 1
  /\ Detach
  /\ UNCHANGED <<apiVars, control, restarts, failures>>

RestartGateway ==
  /\ restarts < MaxRestarts
  /\ ~At("off")
  /\ restarts' = restarts + 1
  /\ gateway' = [step |-> "off", asked |-> Unset]
  /\ session' = ProtocolDefault
  /\ command' = Waiting
  /\ control' = <<>>
  /\ station' = Unset
  /\ doubtful' = FALSE
  /\ UNCHANGED <<apiVars, outages, failures>>

Next ==
  \/ \E r \in Request :
       FetchDevice(r) \/ Patch(r) \/ PublishSetBroadcastFlags(r) \/ PublishFails(r)
  \/ Run /\ UNCHANGED <<apiVars, control, bounds>>
  \/ SetLost /\ UNCHANGED <<apiVars, control, restarts, outages>>
  \/ handleControlMessage /\ UNCHANGED <<apiVars, bounds>>
  \/ SendLost /\ UNCHANGED <<apiVars, restarts, outages>>
  \/ Outage
  \/ RestartGateway

Spec == Init /\ [][Next]_vars

-----------------------------------------------------------------------------
(* The spec, the requests, the gateway's session and the Z21 hold only     *)
(* what the code can put into them.                                        *)
TypeOK ==
  /\ spec \in Flags \cup {Unset}
  /\ \A r \in Request : request[r].step \in {"idle", "got", "patched"}
  /\ \A i \in DOMAIN control : control[i] \in Flags \cup {Default}
  /\ gateway.step \in {"off", "read", "dialing", "attached", "asking", "told", "bridged"}
  /\ gateway.asked \in (Nat \ {0}) \cup {Unset}
  /\ session \in Nat \ {0}
  /\ command.step \in {"idle", "set", "send"}
  /\ station \in (Nat \ {0}) \cup {Unset}

AllAnswered == \A r \in Request : request[r] = Waiting

AllHandled == control = <<>> /\ command = Waiting

(* Once every request is answered and every command handled, a gateway     *)
(* that subscribed has the flags of the spec in its session, whether it    *)
(* was connected when the command came or not, restarted or not.  What may *)
(* be missed (overlapping requests publish in any order, and NATS keeps    *)
(* nothing) the next request mends.                                        *)
SessionFollowsSpec ==
  AllAnswered /\ AllHandled /\ Subscribed /\ ~missed => session = Effective(spec)

(* Once every command is handled, a bridged Z21 has the session's flags,   *)
(* except for a command that fell into the handshake and for a lost        *)
(* datagram, and then only until the next command or reconnect: a          *)
(* reconnect brings the flags of every command handled before it.          *)
NextSendMends ==
  AllHandled /\ At("bridged") /\ ~doubtful => station = session

=============================================================================
