--------------------------- MODULE DetectorStore ---------------------------
(***************************************************************************)
(* The Kubernetes objects that CAN address allocation works on, as the     *)
(* processes of the system see them through the API server: CANDetector,   *)
(* Z21Device and CANAddressPool objects, and the watch streams from which  *)
(* the operator's informers fill their caches.                             *)
(*                                                                         *)
(* Objects are what the code reads and writes of them.  A detector and its *)
(* object share a name (detectorName(netID)); the namespace, the netID and *)
(* the name are one identity, because each determines the others.          *)
(***************************************************************************)
EXTENDS CANPool, ApiServer, TLC

CONSTANTS
  Detector,   \* CAN occupancy detector modules, and the names of their objects
  Device,     \* Z21 command stations, and the names of their Z21Device objects
  DeviceOf,   \* the station that hears each detector
  PoolName,   \* names of CANAddressPool objects
  None,       \* a nil pointer, an empty name
  Absent,     \* an object that does not exist
  MaxLag      \* bound: undelivered watch events of one kind

ASSUME StoreAssumption ==
  /\ DeviceOf \in [Detector -> Device]
  /\ MaxLag \in Nat \ {0}
  /\ None \notin Nat /\ None \notin Device /\ None \notin PoolName /\ None \notin Detector
  /\ Detector \cap Device = {} /\ Detector \cap PoolName = {} /\ Device \cap PoolName = {}
  /\ NoOwner \notin Detector /\ IsFiniteSet(Detector)

VARIABLES
  det,        \* CANDetector objects by name
  dev,        \* the pool each Z21Device uses, Absent when there is no device
  pools,      \* CANAddressPool objects by name: [cfg, status]
  watch,      \* undelivered watch events, oldest first, one stream per kind
  current     \* objects whose latest resourceVersion the running reconcile holds

storeVars == <<det, dev, pools, watch, current>>

Pending   == "Pending"
Allocated == "Allocated"
Applied   == "Applied"
Failed    == "Failed"
NoPhase   == ""

(* Messages, by what tells them apart; the empty one is NoMessage. *)
NoMessage    == ""
NoDeviceRef  == "spec.deviceRef.name is required"
NoDevice     == "Z21Device not found"
NoPool       == "CANAddressPool not found"
StillReports == "module still reports another address"

Messages == {NoMessage, NoDeviceRef, NoDevice, NoPool, StillReports} \cup PoolErrors

MaybeAddress == (Nat \ {0}) \cup {None}

(***************************************************************************)
(* spec: ref, adopt, desired (and the device label); status: observed,     *)
(* assigned, phase, message.                                               *)
(***************************************************************************)
DetectorObject ==
  [ref : Device \cup {None}, labelled : BOOLEAN, adopt : BOOLEAN, desired : MaybeAddress,
   observed : MaybeAddress, assigned : MaybeAddress,
   phase : {NoPhase, Pending, Allocated, Applied, Failed}, message : Messages]

NewDetector(ref, labelled, adopt) ==
  [ref |-> ref, labelled |-> labelled, adopt |-> adopt, desired |-> None,
   observed |-> None, assigned |-> None, phase |-> NoPhase, message |-> NoMessage]

(* assignedAddress: the address an object stands for when a pool is rebuilt. *)
AssignedAddress(obj) == IF obj.assigned # None THEN obj.assigned ELSE obj.desired

(* spec of a CANAddressPool, before the library looks at it (the API server *)
(* itself only asks that start and end are from 1 to 255).                 *)
Configuration == [start : Nat, end : Nat, reserved : Seq(Nat)]

NoStats == [rangeSize |-> 0, reserved |-> 0, allocated |-> 0, autoAvailable |-> 0]

NoEvents == [det |-> <<>>, dev |-> <<>>, pool |-> <<>>]

-----------------------------------------------------------------------------
(***************************************************************************)
(* Writes.  A write that changes nothing makes no new resourceVersion and  *)
(* no event.  A writer other than the running reconcile outdates the copy  *)
(* that reconcile holds.                                                   *)
(***************************************************************************)
Event(name, obj) == [name |-> name, obj |-> obj]

Publish(kind, name, obj) ==
  /\ Len(watch[kind]) < MaxLag
  /\ watch' = [watch EXCEPT ![kind] = Append(@, Event(name, obj))]

PutDetector(d, obj) ==
  /\ det' = [det EXCEPT ![d] = obj]
  /\ IF obj = det[d] THEN UNCHANGED watch ELSE Publish("det", d, obj)
  /\ UNCHANGED <<dev, pools>>

PutPool(p, obj) ==
  /\ pools' = [pools EXCEPT ![p] = obj]
  /\ IF obj = pools[p] THEN UNCHANGED watch ELSE Publish("pool", p, obj)
  /\ UNCHANGED <<det, dev>>

PutDevice(v, pool) ==
  /\ dev' = [dev EXCEPT ![v] = pool]
  /\ Publish("dev", v, pool)
  /\ UNCHANGED <<det, pools>>

Outdate(name) == current' = current \ {name}

(* Objects with events the informers have not seen yet. *)
Lagging == UNION {{watch[k][i].name : i \in DOMAIN watch[k]} : k \in DOMAIN watch}

=============================================================================
