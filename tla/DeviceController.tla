-------------------------- MODULE DeviceController --------------------------
(***************************************************************************)
(* The operator's Z21Device controller.  Its informer cache lags the API   *)
(* server by up to MaxLag events, one worker reconciles one queued device  *)
(* at a time, and a reconcile is one call to the API server after another: *)
(* other writers move in between, and the operator may stop after any.     *)
(*                                                                         *)
(* The workloads of a device are named after the device's name alone and   *)
(* live in one namespace, whatever namespace the device is in.             *)
(***************************************************************************)
EXTENDS DeviceObject

CONSTANTS
  Name,      \* names of devices
  NameOf,    \* the name of each device
  MaxLag     \* bound: undelivered watch events

ASSUME StoreAssumption ==
  /\ NameOf \in [Device -> Name]
  /\ MaxLag \in Nat \ {0}

VARIABLES
  device,    \* Z21Device objects
  cached,    \* the informer's copies of them
  watch,     \* undelivered watch events, oldest first: [name, obj]
  workload,  \* by name: the ServiceAccount, Deployments and Service of that name
  rbac,      \* devices that have their RoleBinding and, made before it, its Role
  trace,     \* the ConfigMap's trace flags
  queue,     \* the work queue
  run        \* the running reconcile, or Idle

storeVars == <<device, cached, watch, workload, rbac, trace>>
controllerVars == <<queue, run>>

Idle == [step |-> "idle"]

(* A Deployment, by what its pods are started with.                        *)
DeploymentsOf(contents) == [content : contents, state : States]

Contents == [of : Device, backend : {Hardware, Simulator}, trace : BOOLEAN]

ASSUME NoDeploymentAssumption == Absent \notin DeploymentsOf(Contents) \cup DeploymentsOf(BOOLEAN)

NoWorkload == [account |-> FALSE, gateway |-> Absent, service |-> FALSE, simulator |-> Absent]

(* What a gateway Deployment's pods are started with: the device, the      *)
(* address that follows from its backend, and the trace flag.              *)
GatewayContent(d, backend, flag) == [of |-> d, backend |-> backend, trace |-> flag]

DeployOnce(deployment, content) ==     \* mutant: an existing Deployment is left as it is
  IF deployment = Absent THEN [content |-> content, state |-> Rolling] ELSE deployment

(* Create, or give an existing Deployment the desired content; with a      *)
(* rolling update the replica it has stays ready until the new one is.     *)
Deploy(deployment, content) ==
  [content |-> content, state |-> IF deployment = Absent THEN Rolling ELSE deployment.state]

Publish(d, obj) ==
  /\ Len(watch) < MaxLag
  /\ watch' = Append(watch, [name |-> d, obj |-> obj])

Put(d, obj) ==
  /\ device' = [device EXCEPT ![d] = obj]
  /\ Publish(d, obj)

Lagging == {watch[i].name : i \in DOMAIN watch}

(* The Role and the RoleBinding are owned by the device and collected with it. *)
Collect(d) == rbac' = rbac \ {d}

ControllerInit ==
  /\ queue = {}
  /\ run = Idle

-----------------------------------------------------------------------------
(* Watch events and the ConfigMap's mapELPConfigToDevices.                 *)
GenerationOf(obj) == IF obj = Absent THEN 0 ELSE obj.generation

DeliverGenerations ==     \* mutant: with a predicate that ignores writes of the status
  /\ watch # <<>>
  /\ LET d == Head(watch).name IN
     /\ cached' = [cached EXCEPT ![d] = Head(watch).obj]
     /\ queue' = IF GenerationOf(cached[d]) = GenerationOf(Head(watch).obj)
                 THEN queue ELSE queue \cup {d}
  /\ watch' = Tail(watch)
  /\ UNCHANGED <<device, workload, rbac, trace, run>>

Deliver ==
  /\ watch # <<>>
  /\ cached' = [cached EXCEPT ![Head(watch).name] = Head(watch).obj]
  /\ queue' = queue \cup {Head(watch).name}
  /\ watch' = Tail(watch)
  /\ UNCHANGED <<device, workload, rbac, trace, run>>

mapELPConfigToDevices == queue' = queue \cup {d \in Device : cached[d] # Absent}

-----------------------------------------------------------------------------
(***************************************************************************)
(* Reconcile up to its first call.                                         *)
(***************************************************************************)
Finish == run' = Idle /\ UNCHANGED queue

Requeue == run' = Idle /\ queue' = queue \cup {run.name}

Goto(step) == run' = [run EXCEPT !.step = step] /\ UNCHANGED queue

(* The trace flags are those of the ConfigMap's informer, which is filled  *)
(* before the worker starts: the Get of loadRuntimeConfig makes no call    *)
(* and finds the ConfigMap or, which leaves the flags off, none.           *)
NewRun(d, step) ==
  [step |-> step, name |-> d, backend |-> cached[d].backend, trace |-> trace,
   in |-> StatusInput(Absent, Absent, FALSE, IF step = "stopping" THEN Stopping ELSE Failed)]

Begin(d) ==
  /\ run = Idle
  /\ d \in queue
  /\ \/ /\ cached[d] = Absent
        /\ queue' = queue \ {d}
        /\ UNCHANGED <<device, watch, run>>
     \/ /\ cached[d] # Absent
        /\ ~cached[d].finalizer
        /\ IF d \notin Lagging
           THEN Put(d, [device[d] EXCEPT !.finalizer = TRUE]) /\ queue' = queue \ {d}
           ELSE UNCHANGED <<device, watch, queue>>
        /\ UNCHANGED run
     \/ /\ cached[d] # Absent
        /\ cached[d].finalizer
        /\ run' = NewRun(d, IF cached[d].deleting THEN "stopping" ELSE "account")
        /\ queue' = queue \ {d}
        /\ UNCHANGED <<device, watch>>
  /\ UNCHANGED <<cached, workload, rbac, trace>>

-----------------------------------------------------------------------------
(***************************************************************************)
(* The workloads, one call per step.                                       *)
(***************************************************************************)
Mine == workload[NameOf[run.name]]

SetMine(mine) == workload' = [workload EXCEPT ![NameOf[run.name]] = mine]

At(step) == run.step = step

reconcileGatewayServiceAccount ==
  /\ At("account")
  /\ SetMine([Mine EXCEPT !.account = TRUE])
  /\ Goto("role")
  /\ UNCHANGED rbac

(* The Role, which gives the gateway nothing until it is bound, and then   *)
(* the RoleBinding.                                                        *)
reconcileGatewayRBAC ==
  /\ \/ At("role") /\ Goto("binding") /\ UNCHANGED rbac
     \/ /\ At("binding")
        /\ rbac' = rbac \cup {run.name}
        /\ Goto(IF run.backend = Simulator THEN "service" ELSE "dropSimulator")
  /\ UNCHANGED workload

reconcileSimulatorService ==
  /\ At("service")
  /\ SetMine([Mine EXCEPT !.service = TRUE])
  /\ run' = [run EXCEPT !.step = "simulator", !.in.service = TRUE]
  /\ UNCHANGED <<rbac, queue>>

reconcileSimulatorDeployment ==
  /\ At("simulator")
  /\ LET deployed == Deploy(Mine.simulator, run.trace) IN
     /\ SetMine([Mine EXCEPT !.simulator = deployed])
     /\ run' = [run EXCEPT !.step = "gateway", !.in.simulator = deployed.state]
  /\ UNCHANGED <<rbac, queue>>

reconcileGatewayDeployment ==
  /\ At("gateway")
  /\ LET deployed == Deploy(Mine.gateway, GatewayContent(run.name, run.backend, run.trace)) IN
     /\ SetMine([Mine EXCEPT !.gateway = deployed])
     /\ run' = [run EXCEPT !.step = "status", !.in.gateway = deployed.state,
                           !.in.phase = computePhase(deployed.state, run.in.simulator)]
  /\ UNCHANGED <<rbac, queue>>

(* deleteGateway and deleteSimulator, in reconcileDelete and, for the      *)
(* simulator, in the reconcile of a hardware device.                       *)
deleteGatewayOnly ==     \* mutant: a hardware device's simulator is not looked for
  /\ \/ /\ At("dropGateway")
        /\ SetMine([Mine EXCEPT !.gateway = Absent])
        /\ Goto("dropAccount")
     \/ /\ At("dropAccount")
        /\ SetMine([Mine EXCEPT !.account = FALSE])
        /\ Goto(IF run.backend = Simulator THEN "dropSimulator" ELSE "unfinalize")
  /\ UNCHANGED rbac

deleteGateway ==
  /\ \/ /\ At("dropGateway")
        /\ SetMine([Mine EXCEPT !.gateway = Absent])
        /\ Goto("dropAccount")
     \/ /\ At("dropAccount")
        /\ SetMine([Mine EXCEPT !.account = FALSE])
        /\ Goto("dropSimulator")
  /\ UNCHANGED rbac

Deleting == run.in.phase = Stopping

deleteSimulator ==
  /\ \/ /\ At("dropSimulator")
        /\ SetMine([Mine EXCEPT !.simulator = Absent])
        /\ Goto("dropService")
     \/ /\ At("dropService")
        /\ SetMine([Mine EXCEPT !.service = FALSE])
        /\ Goto(IF Deleting THEN "unfinalize" ELSE "gateway")
  /\ UNCHANGED rbac

WorkloadStep ==
  /\ \/ reconcileGatewayServiceAccount \/ reconcileGatewayRBAC
     \/ reconcileSimulatorService \/ reconcileSimulatorDeployment \/ reconcileGatewayDeployment
     \/ deleteGateway \/ deleteSimulator
  /\ UNCHANGED <<device, cached, watch, trace>>

-----------------------------------------------------------------------------
(***************************************************************************)
(* updateStatus, at the end of a reconcile and at the start of a deletion: *)
(* it reads the device again from the cache and patches what differs.      *)
(***************************************************************************)
StatusDone == IF Deleting THEN Goto("dropGateway") ELSE Finish

updateStatus ==
  /\ At("status") \/ At("stopping")
  /\ LET d == run.name
         latest == cached[d]
     IN  \/ /\ latest = Absent
            /\ Requeue
            /\ UNCHANGED <<device, watch>>
         \/ /\ latest # Absent
            /\ deviceStatusIsCurrent(latest, run.in)
            /\ StatusDone
            /\ UNCHANGED <<device, watch>>
         \/ /\ latest # Absent
            /\ ~deviceStatusIsCurrent(latest, run.in)
            /\ device[d] # Absent
            /\ Put(d, [device[d] EXCEPT
                         !.status = MergePatch(@, latest.status, OperatorStatus(latest, run.in))])
            /\ StatusDone
         \/ /\ latest # Absent
            /\ ~deviceStatusIsCurrent(latest, run.in)
            /\ device[d] = Absent
            /\ Requeue
            /\ UNCHANGED <<device, watch>>
  /\ UNCHANGED <<cached, workload, rbac, trace>>

(* The last step of reconcileDelete: the device is read again from the     *)
(* cache and written without its finalizer, which removes it, unless it is *)
(* another one, made since under the same name: that one stays, and one    *)
(* that has no finalizer is written as it was.                             *)
Unfinalized(obj) == IF obj.deleting THEN Absent ELSE [obj EXCEPT !.finalizer = FALSE]

RemoveFinalizer ==
  /\ At("unfinalize")
  /\ LET d == run.name
         latest == cached[d]
     IN  \/ /\ d \in Lagging \/ latest = Absent
            /\ Requeue
            /\ UNCHANGED <<device, watch, rbac>>
         \/ /\ d \notin Lagging /\ latest # Absent
            /\ Finish
            /\ IF Unfinalized(latest) = latest
               THEN UNCHANGED <<device, watch>> ELSE Put(d, Unfinalized(latest))
            /\ IF latest.deleting THEN Collect(d) ELSE UNCHANGED rbac
  /\ UNCHANGED <<cached, workload, trace>>

ReconcileStep == WorkloadStep \/ updateStatus \/ RemoveFinalizer

-----------------------------------------------------------------------------
(***************************************************************************)
(* A call refused or failed.  A workload that fails is only logged: the    *)
(* reconcile goes on to write Failed, and returns no error.                *)
(***************************************************************************)
FailedWorkload ==
  /\ run' = [run EXCEPT !.step = "status",
                        !.in = StatusInput(Absent, IF At("gateway") THEN @.simulator ELSE Absent,
                                           @.service, Failed)]
  /\ UNCHANGED queue

ErrorDropped ==     \* mutant: a failed deletion is only logged, like a failed workload
  /\ run # Idle
  /\ IF At("status") THEN Requeue ELSE IF Deleting THEN Finish ELSE FailedWorkload
  /\ UNCHANGED storeVars

FailureLogged ==    \* mutant: a failed workload is logged and nothing written
  /\ run # Idle
  /\ IF At("status") \/ Deleting THEN Requeue ELSE Finish
  /\ UNCHANGED storeVars

CallFails ==
  /\ run # Idle
  /\ IF At("status") \/ Deleting THEN Requeue ELSE FailedWorkload
  /\ UNCHANGED storeVars

(* The operator starts again with caches read afresh and every device queued. *)
RestartOperator ==
  /\ run' = Idle
  /\ cached' = device
  /\ watch' = <<>>
  /\ queue' = {d \in Device : device[d] # Absent}
  /\ UNCHANGED <<device, workload, rbac, trace>>

=============================================================================
