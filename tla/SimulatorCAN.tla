---------------------------- MODULE SimulatorCAN ----------------------------
(***************************************************************************)
(* The registry of CAN devices a simulator keeps, and what the operations  *)
(* of the CAN handlers and of the control plane make of it.  A registry is *)
(* a function from the net IDs at hand to a device or Absent.              *)
(*                                                                         *)
(* A device is its kind, where it is (a detector's module address, a       *)
(* booster's output), and whether a booster's track voltage is off.  Left  *)
(* out: names, and the ports of a detector, of which there is at least     *)
(* one: all of them report the same address in one datagram.               *)
(***************************************************************************)
EXTENDS Integers

CONSTANTS
  NetID,    \* the CAN network identifiers at hand
  Absent    \* no device, no session, nothing heard

MaxNetID == 65535

ASSUME NetIDAssumption == NetID \subseteq 1 .. MaxNetID /\ Absent \notin NetID

Detector == "detector"
Booster  == "booster"
NoKind   == ""        \* the zero CANDeviceKind

CANDevice == [kind : {Detector, Booster, NoKind}, at : Nat, off : BOOLEAN]

NewDevice(kind, at) == [kind |-> kind, at |-> at, off |-> FALSE]

IsKind(device, kind) == device # Absent /\ device.kind = kind

Default(value) == IF value = 0 THEN 1 ELSE value

Uint16(value) == value % 65536

newDetectorDevice(moduleAddr) == NewDevice(Detector, Default(moduleAddr))

newBoosterDevice(outputPort) == NewDevice(Booster, Default(outputPort))

(* The device BuildCANDevice makes of a call's parameters.  The net ID is  *)
(* in range, because NetID holds no other.                                 *)
BuildCANDevice(kind, at) ==
  IF kind = Detector THEN newDetectorDevice(Uint16(at)) ELSE newBoosterDevice(Uint16(at))

-----------------------------------------------------------------------------
RegisterKeepingAddress(devices, n, device) ==  \* mutant: an old address survives
  [devices EXCEPT ![n] = IF IsKind(@, Detector) THEN @ ELSE device]

RegisterCANDevice(devices, n, device) == [devices EXCEPT ![n] = device]

(* A description makes a device of no kind where there was none.           *)
SetDescription(devices, n) ==
  [devices EXCEPT ![n] = IF @ = Absent THEN NewDevice(NoKind, 0) ELSE @]

(* LAN_CAN_MAINTENANCE: a detector takes the new address, silently.        *)
SetModuleAddress(devices, n, addr) ==
  [devices EXCEPT ![n] = IF IsKind(@, Detector) THEN [@ EXCEPT !.at = addr] ELSE @]

BoosterSetTrackPower(devices, n, on) ==
  [devices EXCEPT ![n] = IF IsKind(@, Booster) THEN [@ EXCEPT !.off = ~on] ELSE @]

detectorDevices(devices) == {n \in NetID : IsKind(devices[n], Detector)}

=============================================================================
