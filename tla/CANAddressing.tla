--------------------------- MODULE CANAddressing ---------------------------
(***************************************************************************)
(* CAN address allocation as a whole: the operator's detector controller,  *)
(* the gateways' detector managers, the modules, and the users who edit    *)
(* the objects, meeting in the API server.                                 *)
(***************************************************************************)
EXTENDS CANDetectorController, DetectorManager

CONSTANTS
  InitialPools,   \* the pools at the start: PoolName -> [cfg, status] or Absent
  InitialDevices, \* the devices at the start: Device -> PoolName or Absent
  PoolEdits,      \* configurations a user may give a pool
  DeviceEdits,    \* pools a user may point a device at; Absent deletes it
  UserMay,        \* user operations on detectors: subset of {"create", "delete"}
  MaxEdits,       \* bound: user operations in a behaviour
  MaxFaults       \* bound: failed writes, restarts and failed gateway calls

ASSUME SystemAssumption ==
  /\ UserMay \subseteq {"create", "delete"}
  /\ MaxEdits \in Nat /\ MaxFaults \in Nat
  /\ InitialPools = [p \in PoolName |-> InitialPools[p]]
  /\ \A p \in PoolName : InitialPools[p] # Absent =>
        /\ InitialPools[p] = [cfg |-> InitialPools[p].cfg, status |-> InitialPools[p].status]
        /\ InitialPools[p].cfg \in Configuration
  /\ InitialDevices \in [Device -> PoolName \cup {Absent}]
  /\ PoolEdits \subseteq Configuration
  /\ DeviceEdits \subseteq PoolName \cup {Absent}
  /\ Absent \notin PoolName \cup DetectorObject

VARIABLES edits, faults

vars == <<storeVars, controllerVars, managerVars, edits, faults>>

Init ==
  /\ det = [d \in Detector |-> Absent]
  /\ dev = InitialDevices
  /\ pools = InitialPools
  /\ watch = NoEvents
  /\ current = {}
  /\ ControllerInit
  /\ ManagerInit
  /\ edits = 0
  /\ faults = 0

-----------------------------------------------------------------------------
(***************************************************************************)
(* Users.                                                                  *)
(***************************************************************************)
CreateDetector(d) ==
  /\ "create" \in UserMay
  /\ det[d] = Absent
  /\ \E ref \in {None, DeviceOf[d]}, adopt \in BOOLEAN :
        PutDetector(d, NewDetector(ref, FALSE, adopt))
  /\ Outdate(d)

DeleteDetector(d) ==
  /\ "delete" \in UserMay
  /\ det[d] # Absent
  /\ PutDetector(d, Absent)
  /\ Outdate(d)

EditPool(p) ==
  /\ pools[p] # Absent
  /\ \E cfg \in PoolEdits \ {pools[p].cfg} : PutPool(p, [pools[p] EXCEPT !.cfg = cfg])
  /\ Outdate(p)

EditDevice(v) ==
  /\ \E p \in DeviceEdits \ {dev[v]} : PutDevice(v, p)
  /\ UNCHANGED current

UserEdits ==
  /\ edits < MaxEdits
  /\ edits' = edits + 1
  /\ \/ \E d \in Detector : CreateDetector(d) \/ DeleteDetector(d)
     \/ \E p \in PoolName : EditPool(p)
     \/ \E v \in Device : EditDevice(v)
  /\ UNCHANGED <<controllerVars, managerVars, faults>>

-----------------------------------------------------------------------------
Informers ==
  /\ DeliverDetector \/ mapDeviceToDetectors \/ mapPoolToDetectors
  /\ UNCHANGED <<managerVars, edits, faults>>

StartReconcile(d) == Begin(d) /\ UNCHANGED <<managerVars, edits, faults>>

StepReconcile == ReconcileStep /\ UNCHANGED <<managerVars, edits, faults>>

Gateway(v) == ManagerStep(v) /\ UNCHANGED <<controllerVars, edits, faults>>

Reports(d) == ModuleReports(d) /\ UNCHANGED <<controllerVars, edits, faults>>

Discovers(d) ==
  /\ \E r \in reports : r[1] = d /\ UpsertDiscovered(d, r[2])
  /\ UNCHANGED <<controllerVars, edits, faults>>

StartsPass(v) == ReconcileAddresses(v) /\ UNCHANGED <<controllerVars, edits, faults>>

Faults ==
  /\ faults < MaxFaults
  /\ faults' = faults + 1
  /\ \/ (WriteRefused \/ AnswerLost \/ RestartOperator) /\ UNCHANGED managerVars
     \/ (\E v \in Device : GatewayFails(v)) /\ UNCHANGED controllerVars
  /\ UNCHANGED edits

Next ==
  \/ UserEdits
  \/ Informers
  \/ \E d \in Detector : StartReconcile(d) \/ Reports(d) \/ Discovers(d)
  \/ StepReconcile
  \/ \E v \in Device : Gateway(v) \/ StartsPass(v)
  \/ Faults

Spec == Init /\ [][Next]_vars

-----------------------------------------------------------------------------
(* Objects, caches, work queue, the running reconcile and the gateways     *)
(* hold only what the code can put into them.                              *)
MaybeDetector == DetectorObject \cup {Absent}

TypeOK ==
  /\ det \in [Detector -> MaybeDetector]
  /\ dev \in [Device -> PoolName \cup {Absent}]
  /\ DOMAIN pools = PoolName
  /\ current \subseteq Detector \cup PoolName
  /\ cache.det \in [Detector -> MaybeDetector]
  /\ cache.dev \in [Device -> PoolName \cup {Absent}]
  /\ queue \subseteq Detector
  /\ pc \in {"idle", "list", "spec", "status", "fail", "pool"}
  /\ pc = "idle" <=> run = NoRun
  /\ pc # "idle" => run.name \in Detector /\ run.obj \in DetectorObject
  /\ hw \in [Detector -> Nat \ {0}]
  /\ reports \subseteq Detector \X Nat
  /\ \A v \in Device : gw[v].pc \in {"idle", "observe", "pass", "poll"}

(* An address given to a detector stays that detector's for as long as its *)
(* object exists: no reconcile from an old copy, no lost answer, restart or *)
(* write of a gateway moves it.                                            *)
AssignmentStable ==
  [][\A d \in Detector :
       det[d] # Absent /\ det'[d] # Absent /\ AssignedAddress(det[d]) # None
       => AssignedAddress(det'[d]) = AssignedAddress(det[d])]_vars

(* status.assignedAddress is never ahead of spec.desiredAddress, and never *)
(* another address: a crash between the two writes leaves the address in   *)
(* the spec, where the next Rebuild finds it.                              *)
AssignedIsDesired ==
  \A d \in Detector :
    det[d] # Absent /\ det[d].assigned # None => det[d].desired = det[d].assigned

(* A reserved address of the pool is only ever given to the detector whose *)
(* module already reports it, and only if its object asks to adopt it.     *)
ReservedOnlyAdopted ==
  [][\A d \in Detector :
       /\ det[d] # Absent /\ det'[d] # Absent
       /\ AssignedAddress(det[d]) = None /\ AssignedAddress(det'[d]) # None
       => LET a == AssignedAddress(det'[d])
              p == dev[det[d].ref]
          IN  a \in Range(pools[p].cfg.reserved) => det[d].adopt /\ det[d].observed = a]_vars

(* Phase Applied means the module is configured with the desired address,  *)
(* although the gateway sets it from a listed object and from reports that *)
(* may be old.                                                             *)
AppliedIsConfigured ==
  \A d \in Detector :
    det[d] # Absent /\ det[d].phase = Applied => hw[d] = det[d].desired

-----------------------------------------------------------------------------
(***************************************************************************)
(* Promises about addresses.                                               *)
(***************************************************************************)
HeldBy(d) == IF det[d] = Absent THEN None ELSE AssignedAddress(det[d])

(* Two detectors of one pool never have the same address assigned.         *)
UniqueAddress ==
  \A d, e \in Detector :
    /\ det[d] # Absent /\ det[e] # Absent /\ d # e
    /\ det[d].assigned # None /\ det[e].assigned # None
    /\ det[d].ref # None /\ det[e].ref # None
    /\ dev[det[d].ref] = dev[det[e].ref]
    => det[d].assigned # det[e].assigned

(* No detector fails because its pool's configuration is refused: stated   *)
(* for the pool the repository ships, which users get by doing nothing.    *)
PoolConfigAccepted ==
  \A d \in Detector : det[d] # Absent => det[d].message # ErrInvalidConfig

(* Nothing is left to do for the operator: no event undelivered, no        *)
(* detector queued, no reconcile running.                                  *)
Quiet == Lagging = {} /\ queue = {} /\ pc = "idle"

(* Nobody is forgotten: when the operator has nothing left to do, every    *)
(* detector has an address assigned or has failed, whatever was refused,   *)
(* lost, restarted or read from old copies before; no step takes a name    *)
(* off the queue without an event, an error or a result to make up for it. *)
NobodyForgotten ==
  Quiet => \A d \in Detector : det[d] # Absent => det[d].assigned # None \/ det[d].phase = Failed

AssignedIn(p) ==
  {d \in Detector : det[d] # Absent /\ det[d].ref # None /\ dev[det[d].ref] = p /\ det[d].assigned # None}

(* When the operator has nothing left to do and no call of it failed, a    *)
(* pool none of whose detectors failed counts exactly its assigned         *)
(* detectors as allocated, although a conflict on the pool's status is     *)
(* only logged.                                                            *)
PoolStatusSettles ==
  Quiet /\ faults = 0 /\ (\A d \in Detector : det[d] # Absent => det[d].phase # Failed)
  => \A p \in PoolName : pools[p].status.allocated = Cardinality(AssignedIn(p))

(***************************************************************************)
(* SyncedSpec: the informers have caught up whenever a reconcile reads.    *)
(* Under it the controller implements the abstract allocation.             *)
(***************************************************************************)
Reads == pc \in {"idle", "list"} /\ pc' # pc

SyncedSpec == Init /\ [][Next /\ (Reads => Lagging = {})]_vars

OnePool == CHOOSE p \in PoolName : TRUE

Allocation == INSTANCE AddressAllocation WITH
  held     <- [d \in Detector |-> HeldBy(d)],
  wants    <- [d \in Detector |-> IF det[d] # Absent /\ det[d].adopt THEN det[d].observed ELSE None],
  range    <- pools[OnePool].cfg.start .. pools[OnePool].cfg.end,
  reserved <- Range(pools[OnePool].cfg.reserved)

(* With one pool, and caches that have caught up, every step of the        *)
(* operator, the gateways and the users is a step of the abstract          *)
(* allocation.                                                             *)
ImplementsAllocation == Allocation!Spec

-----------------------------------------------------------------------------
(***************************************************************************)
(* Fairness.  Watch events are delivered, queued detectors are reconciled  *)
(* and reconciles go on; modules report, and the gateway reads what waits  *)
(* and goes on with what it does.  Strong fairness is asked twice: the bus *)
(* falls silent every so often (a pass starts only on a read timeout), and *)
(* not every SetCANDetectorModuleAddress is lost on the way.               *)
(***************************************************************************)
Fairness ==
  /\ \A kind \in {"det", "dev", "pool"} : WF_vars(Informers /\ watch'[kind] # watch[kind])
  /\ WF_vars(StepReconcile)
  /\ \A d \in Detector : WF_vars(StartReconcile(d)) /\ WF_vars(Reports(d)) /\ WF_vars(Discovers(d))
  /\ \A v \in Device :
       /\ WF_vars(Gateway(v))
       /\ SF_vars(StartsPass(v))
       /\ SF_vars(Gateway(v) /\ hw' # hw)

FairSpec == Spec /\ Fairness

Configured(d) ==
  /\ det[d] # Absent
  /\ det[d].assigned # None
  /\ hw[d] = det[d].assigned

(* Every module ends up configured with the address assigned to it, as     *)
(* long as from some time on every device has a pool with a valid          *)
(* configuration: failed writes, restarts, conflicts and missing or        *)
(* repaired pools are overcome.                                            *)
PoolsUsable ==
  \A v \in Device : dev[v] # Absent /\ pools[dev[v]] # Absent /\ Validate(pools[dev[v]].cfg)

EventuallyConfigured ==
  <>[]PoolsUsable => \A d \in Detector : <>[]Configured(d)

(* The gateway says Applied again and again, although the operator's next  *)
(* reconcile takes the phase back to Allocated every time.                 *)
AppliedRecurs ==
  <>[]PoolsUsable => \A d \in Detector : []<>(det[d] # Absent /\ det[d].phase = Applied)

=============================================================================
