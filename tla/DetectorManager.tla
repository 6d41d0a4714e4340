-------------------------- MODULE DetectorManager --------------------------
(***************************************************************************)
(* The detector manager of the gateways: it creates CANDetector objects    *)
(* for the modules a station reports, and programs into the modules the    *)
(* addresses the operator chose.                                           *)
(*                                                                         *)
(* A gateway serves one device and does one thing at a time.  It talks to  *)
(* the API server without a cache and without resourceVersions; to the     *)
(* station, and through it to the modules, over UDP.                       *)
(***************************************************************************)
EXTENDS DetectorStore

CONSTANTS
  InitialModules,   \* how the modules may be configured at first
  SilentBus,        \* stations whose bus is ever silent for a read timeout
  MaxReports        \* bound: messages waiting at once

ASSUME ManagerAssumption ==
  /\ InitialModules \subseteq [Detector -> Nat \ {0}]
  /\ SilentBus \subseteq Device
  /\ MaxReports \in Nat \ {0}

VARIABLES
  hw,       \* the address each module is configured with
  reports,  \* LAN_CAN_DETECTOR messages in the gateways' sockets: <<detector, address>>
  gw        \* what each gateway is doing

managerVars == <<hw, reports, gw>>

Idle == [pc |-> "idle"]

ManagerInit ==
  /\ hw \in InitialModules
  /\ reports = {}
  /\ gw = [v \in Device |-> Idle]

Becomes(v, state) == gw' = [gw EXCEPT ![v] = state]

(***************************************************************************)
(* External: a module reports its address, on its own or when polled.  The *)
(* report waits in the socket for as long as the gateway is busy.          *)
(***************************************************************************)
ModuleReports(d) ==
  /\ reports' = reports \cup {<<d, hw[d]>>}
  /\ Cardinality(reports') <= MaxReports
  /\ UNCHANGED <<storeVars, hw, gw>>

-----------------------------------------------------------------------------
(***************************************************************************)
(* upsertDiscovered, first half: create the object, or patch labels and    *)
(* missing spec fields of the one there is.  If its status is up to date   *)
(* that is all; otherwise the status patch is a second request, computed   *)
(* from the object the first one returned.                                 *)
(***************************************************************************)
Upserted(v, d) ==
  IF det[d] = Absent THEN NewDetector(v, TRUE, TRUE)
  ELSE [det[d] EXCEPT !.labelled = TRUE, !.ref = IF @ = None THEN v ELSE @]

UpToDate(obj, addr) == obj.observed = addr /\ obj.phase # NoPhase

UpsertDiscovered(d, addr) ==
  LET v == DeviceOf[d] IN
  /\ gw[v] = Idle
  /\ <<d, addr>> \in reports
  /\ reports' = reports \ {<<d, addr>>}
  /\ PutDetector(d, Upserted(v, d))
  /\ IF det'[d] # det[d] THEN Outdate(d) ELSE UNCHANGED current
  /\ Becomes(v, IF UpToDate(Upserted(v, d), addr) THEN Idle
                ELSE [pc |-> "observe", name |-> d, addr |-> addr, base |-> Upserted(v, d)])
  /\ UNCHANGED hw

Observed(base, addr) ==
  [base EXCEPT !.observed = addr, !.phase = IF @ = NoPhase THEN Pending ELSE @]

(* A status patch of the gateway; the object may have gone. *)
PatchStatus(d, base, new) ==
  IF det[d] = Absent THEN UNCHANGED storeVars
  ELSE /\ PutDetector(d, MergePatch(det[d], base, new))
       /\ IF det'[d] # det[d] THEN Outdate(d) ELSE UNCHANGED current

PatchObserved(v) ==
  /\ gw[v].pc = "observe"
  /\ PatchStatus(gw[v].name, gw[v].base, Observed(gw[v].base, gw[v].addr))
  /\ Becomes(v, Idle)
  /\ UNCHANGED <<hw, reports>>

-----------------------------------------------------------------------------
(***************************************************************************)
(* ReconcileAddresses: list once, then handle the listed objects one by    *)
(* one; an error ends the pass.  Objects without desiredAddress are left   *)
(* alone, so only the others enter the pass.  bridgeZ21 starts a pass when *)
(* a read timed out: the bus is silent and no message waits.               *)
(***************************************************************************)
ListedOf(v) ==
  {d \in Detector : det[d] # Absent /\ det[d].ref = v /\ det[d].desired # None}

ReconcileAddresses(v) ==
  /\ gw[v] = Idle
  /\ v \in SilentBus
  /\ \A r \in reports : DeviceOf[r[1]] # v
  /\ ListedOf(v) # {}
  /\ Becomes(v, [pc |-> "pass", left |-> [d \in ListedOf(v) |-> det[d]]])
  /\ UNCHANGED <<storeVars, hw, reports>>

Continue(v, left) == Becomes(v, IF DOMAIN left = {} THEN Idle ELSE [pc |-> "pass", left |-> left])

(* markApplied, when the listed object already shows the desired address. *)
NothingToMark(v, d) ==      \* mutant: nothing to do when the address is right
  LET base == gw[v].left[d] IN
  /\ base.observed = base.desired
  /\ Continue(v, Unbind(gw[v].left, d))
  /\ UNCHANGED <<storeVars, hw, reports>>

MarkApplied(v, d) ==
  LET base == gw[v].left[d] IN
  /\ base.observed = base.desired
  /\ IF base.phase = Applied THEN UNCHANGED storeVars
     ELSE PatchStatus(d, base, [base EXCEPT !.phase = Applied, !.message = NoMessage])
  /\ IF det[d] = Absent /\ base.phase # Applied THEN Becomes(v, Idle)
                                              ELSE Continue(v, Unbind(gw[v].left, d))
  /\ UNCHANGED <<hw, reports>>

(* The address is sent to the module over the maintenance port. *)
SetModuleAddress(v, d) ==
  LET base == gw[v].left[d] IN
  /\ base.observed # base.desired
  /\ \/ hw' = [hw EXCEPT ![d] = base.desired]
     \/ UNCHANGED hw
  /\ Becomes(v, [pc |-> "poll", name |-> d, left |-> gw[v].left])
  /\ UNCHANGED <<storeVars, reports>>

ReconcileOne(v) ==
  /\ gw[v].pc = "pass"
  /\ \E d \in DOMAIN gw[v].left : MarkApplied(v, d) \/ SetModuleAddress(v, d)

(***************************************************************************)
(* pollModuleAddress takes the first report of the module it collects: the *)
(* answer to its request, or one that was still under way.  The status     *)
(* patch says Applied only when that is the desired address.               *)
(***************************************************************************)
PolledAsSent(base, addr) ==     \* mutant: the answer is not compared
  [base EXCEPT !.observed = addr, !.phase = Applied, !.message = NoMessage]

Polled(base, addr) ==
  IF addr = base.desired
    THEN [base EXCEPT !.observed = addr, !.phase = Applied, !.message = NoMessage]
    ELSE [base EXCEPT !.observed = addr, !.phase = Allocated, !.message = StillReports]

PatchPolled(v, addr) ==
  LET d == gw[v].name IN
  /\ gw[v].pc = "poll"
  /\ \/ addr = hw[d] /\ UNCHANGED reports
     \/ <<d, addr>> \in reports /\ reports' = reports \ {<<d, addr>>}
  /\ PatchStatus(d, gw[v].left[d], Polled(gw[v].left[d], addr))
  /\ IF det[d] = Absent THEN Becomes(v, Idle) ELSE Continue(v, Unbind(gw[v].left, d))
  /\ UNCHANGED hw

(* No reply within the window, a failed request, or a restarted gateway. *)
GatewayFails(v) ==
  /\ gw[v] # Idle
  /\ Becomes(v, Idle)
  /\ UNCHANGED <<storeVars, hw, reports>>

ManagerStep(v) ==
  \/ PatchObserved(v)
  \/ ReconcileOne(v)
  \/ \E addr \in {hw[d] : d \in Detector} \cup {r[2] : r \in reports} : PatchPolled(v, addr)

=============================================================================
