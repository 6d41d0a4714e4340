-------------------------- MODULE DeviceLifecycle --------------------------
(***************************************************************************)
(* The life of Z21Device objects: users, the operator's device controller, *)
(* the cluster that runs the gateways it deploys, and the gateways, which  *)
(* write the same status the operator writes.                              *)
(***************************************************************************)
EXTENDS GatewayProcess

CONSTANTS
  UserMay,     \* user operations: subset of {"create", "delete", "backend", "trace"}
  MaxEdits,    \* bound: user operations in a behaviour
  MaxUpsets    \* bound: times a Z21 stops answering or answers again, failed
               \* calls, lost patches, restarts and dead pods together

ASSUME LifecycleAssumption ==
  /\ UserMay \subseteq {"create", "delete", "backend", "trace"}
  /\ MaxEdits \in Nat /\ MaxUpsets \in Nat

VARIABLES edits, upsets

vars == <<storeVars, controllerVars, gatewayVars, edits, upsets>>

Init ==
  /\ device = [d \in Device |-> Absent]
  /\ cached = device
  /\ watch = <<>>
  /\ workload = [n \in Name |-> NoWorkload]
  /\ rbac = {}
  /\ trace = FALSE
  /\ ControllerInit
  /\ GatewayInit
  /\ answers \in SUBSET Device
  /\ edits = 0
  /\ upsets = 0

-----------------------------------------------------------------------------
(***************************************************************************)
(* Users, and the command station.                                         *)
(***************************************************************************)
Create(d) ==
  /\ "create" \in UserMay
  /\ device[d] = Absent
  /\ \E backend \in {Hardware} \cup (IF "backend" \in UserMay THEN {Simulator} ELSE {}) :
        Put(d, NewDevice(backend))
  /\ UNCHANGED <<queue, trace>>

(* A device with a finalizer is only marked; without one it is gone at once. *)
Delete(d) ==
  /\ "delete" \in UserMay
  /\ device[d] # Absent
  /\ ~device[d].deleting
  /\ Put(d, IF device[d].finalizer
            THEN [device[d] EXCEPT !.deleting = TRUE, !.generation = @ + 1] ELSE Absent)
  /\ UNCHANGED <<queue, trace>>

EditBackend(d) ==
  /\ "backend" \in UserMay
  /\ device[d] # Absent
  /\ Put(d, [device[d] EXCEPT !.backend = IF @ = Hardware THEN Simulator ELSE Hardware,
                              !.generation = @ + 1])
  /\ UNCHANGED <<queue, trace>>

EditConfigMap ==
  /\ "trace" \in UserMay
  /\ trace' = ~trace
  /\ mapELPConfigToDevices
  /\ UNCHANGED <<device, watch>>

UserEdits ==
  /\ edits < MaxEdits
  /\ edits' = edits + 1
  /\ (\E d \in Device : Create(d) \/ Delete(d) \/ EditBackend(d)) \/ EditConfigMap
  /\ UNCHANGED <<cached, workload, rbac, run, gatewayVars, upsets>>

Outage(d) ==
  /\ upsets < MaxUpsets
  /\ upsets' = upsets + 1
  /\ answers' = IF d \in answers THEN answers \ {d} ELSE answers \cup {d}
  /\ UNCHANGED <<storeVars, controllerVars, pod, edits>>

-----------------------------------------------------------------------------
Informer == Deliver /\ UNCHANGED <<gatewayVars, edits, upsets>>

StartReconcile(d) == Begin(d) /\ UNCHANGED <<gatewayVars, edits, upsets>>

StepReconcile == ReconcileStep /\ UNCHANGED <<gatewayVars, edits, upsets>>

Gateway(n) == GatewayStep(n) /\ UNCHANGED <<controllerVars, edits, upsets>>

Cluster(n) == ClusterStep(n) /\ UNCHANGED <<controllerVars, edits, upsets>>

Faults ==
  /\ upsets < MaxUpsets
  /\ upsets' = upsets + 1
  /\ \/ (CallFails \/ RestartOperator) /\ UNCHANGED gatewayVars
     \/ (\E n \in Name : PatchLost(n) \/ PodDies(n)) /\ UNCHANGED controllerVars
  /\ UNCHANGED edits

Next ==
  \/ UserEdits
  \/ \E d \in Device : Outage(d) \/ StartReconcile(d)
  \/ Informer
  \/ StepReconcile
  \/ \E n \in Name : Gateway(n) \/ Cluster(n)
  \/ Faults

Spec == Init /\ [][Next]_vars

-----------------------------------------------------------------------------
(* Objects, caches, workloads, the running reconcile and the gateways hold *)
(* only what the code can put into them, and a device marked as deleted    *)
(* has its finalizer.                                                      *)
DeviceOK(obj) == obj # Absent => IsDevice(obj) /\ (obj.deleting => obj.finalizer)

TypeOK ==
  /\ \A d \in Device : DeviceOK(device[d]) /\ DeviceOK(cached[d])
  /\ \A n \in Name :
       /\ workload[n].gateway \in DeploymentsOf(Contents) \cup {Absent}
       /\ workload[n].simulator \in DeploymentsOf(BOOLEAN) \cup {Absent}
       /\ pod[n] # Absent => pod[n].content \in Contents
  /\ rbac \subseteq Device /\ answers \subseteq Device /\ queue \subseteq Device
  /\ run # Idle => run.name \in Device

Named(n) == {d \in Device : NameOf[d] = n}

(* A deleted device leaves nothing behind: whatever fails, whenever the    *)
(* operator stops and however old its cache is, the finalizer keeps the    *)
(* device until its workloads are gone, and none is made afterwards.       *)
NoOrphans ==
  \A n \in Name : (\A d \in Named(n) : device[d] = Absent) => workload[n] = NoWorkload

(* Nothing is left to do for the operator.                                 *)
Quiet == watch = <<>> /\ queue = {} /\ run = Idle

(* When the operator has nothing left to do, every device has its          *)
(* finalizer, none is marked as deleted, and the status of each observed   *)
(* its latest generation: no edit is left unread, and what a reconcile     *)
(* that worked from an old copy wrote, even that of a removed device into  *)
(* a new one of its name, has been set right.                              *)
NothingLeftToDo ==
  Quiet => \A d \in Device :
    device[d] # Absent =>
      /\ device[d].finalizer /\ ~device[d].deleting
      /\ device[d].status.observed = device[d].generation

(* A device has a gateway of its own, started with its backend's address   *)
(* and the current trace flag, and a simulator exactly if it asks for one. *)
Deployed(d) ==
  LET w == workload[NameOf[d]] IN
  /\ w.gateway # Absent
  /\ w.gateway.content = GatewayContent(d, device[d].backend, trace)
  /\ w.simulator # Absent <=> device[d].backend = Simulator
  /\ w.service <=> device[d].backend = Simulator

(* When the operator has nothing left to do, a device shown as starting or *)
(* running has a gateway of its own, started with its backend's address    *)
(* and the current trace flag, and a simulator exactly if it asks for one: *)
(* no edit made during a reconcile is lost.                                *)
WorkloadCurrent ==
  Quiet => \A d \in Device :
    device[d] # Absent /\ device[d].status.phase \in {Starting, Running} => Deployed(d)

(* When the operator has nothing left to do, a device shown as running has *)
(* condition GatewayReady true, although the gateway writes the list of    *)
(* conditions whole, from a copy that may be older.                        *)
PhaseAgrees ==
  Quiet => \A d \in Device :
    device[d] # Absent /\ device[d].status.phase = Running
    => Shows(device[d], GatewayReady)

(* No device is shown reachable and degraded at once, although the         *)
(* operator may put back an older list of conditions.                      *)
NeverReachableAndDegraded ==
  \A d \in Device :
    ~(Shows(device[d], DeviceReachable) /\ Shows(device[d], Degraded))

-----------------------------------------------------------------------------
(***************************************************************************)
(* Fairness.  Events are delivered, queued devices reconciled, reconciles  *)
(* and health loops go on, pods are stopped, and readiness is observed.    *)
(* Pods need not start: a node may be lost or an image missing.  Strong    *)
(* fairness stands where a write waits for room in the bounded watch       *)
(* stream, which other writers might fill again and again.                 *)
(***************************************************************************)
Fairness ==
  /\ WF_vars(Informer)
  /\ SF_vars(StepReconcile)
  /\ \A d \in Device : SF_vars(StartReconcile(d))
  /\ \A n \in Name :
       /\ SF_vars(Gateway(n))
       /\ WF_vars(StopPod(n) /\ UNCHANGED <<controllerVars, edits, upsets>>)
       /\ WF_vars(ObserveGateway(n) /\ UNCHANGED <<controllerVars, edits, upsets>>)

FairSpec == Spec /\ Fairness

ServedByPod(d) ==
  /\ device[d] # Absent /\ ~device[d].deleting
  /\ pod[NameOf[d]] # Absent /\ Served(NameOf[d]) = d

(* A deleted device goes away, although its gateway goes on writing its    *)
(* status for a while and so makes the operator's writes conflict.         *)
DeletionCompletes ==
  \A d \in Device : (device[d] # Absent /\ device[d].deleting) ~> (device[d] = Absent)

(* A device that stays gets the workloads it asks for, although one call   *)
(* fails.  The reconcile that made the call returns no error and so is not *)
(* repeated for it; what brings about another one is the event of the      *)
(* status that says Failed.                                                *)
FailureIsRetried ==
  \A d \in Device :
    <>[](device[d] # Absent /\ ~device[d].deleting) => <>[]Deployed(d)

(* The operator and the gateway each write the list of conditions whole,   *)
(* and without a pause they could undo one another for ever.  The pause is *)
(* the health check's interval: again and again the operator has nothing   *)
(* left to do and no patch of the gateway is under way.                    *)
Paced ==
  []<>(Quiet /\ \A n \in Name : pod[n] # Absent => ~pod[n].patch.pending)

(* A device whose gateway stays up, its rollout complete, is shown as      *)
(* running and ready in the end: no event leads from the Deployment to the *)
(* operator, but the gateway's own reports wake it.                        *)
GatewayUpIsShown ==
  Paced => \A d \in Device :
    <>[](ServedByPod(d) /\ RolledOut(NameOf[d]) /\ device[d].backend = Hardware) =>
      <>[](device[d] # Absent /\ device[d].status.phase = Running
           /\ Shows(device[d], GatewayReady))

(* A Z21 that keeps answering, or keeps silent, is shown as such in the    *)
(* end, whatever the operator puts back in between.                        *)
ReachabilityIsShown ==
  Paced => \A d \in Device :
    /\ <>[](ServedByPod(d) /\ d \in answers) => <>[]Shows(device[d], DeviceReachable)
    /\ <>[](ServedByPod(d) /\ d \notin answers) =>
         <>[](~Shows(device[d], DeviceReachable) /\ Shows(device[d], Degraded))

=============================================================================
