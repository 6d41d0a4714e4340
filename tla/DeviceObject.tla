---------------------------- MODULE DeviceObject ----------------------------
(***************************************************************************)
(* Z21Device objects and the operators that compute their status: what the *)
(* operator derives from the Deployments it reconciles, and what the       *)
(* gateway's health loop derives from its probes.                          *)
(*                                                                         *)
(* status.conditions is a list with one entry per type; it is a function   *)
(* from the types present to [status, generation] (the reason and message  *)
(* follow from these, except the number of failed probes a message counts, *)
(* see ListRewritten).                                                     *)
(***************************************************************************)
EXTENDS Integers, Sequences, ApiServer

CONSTANTS
  Device,           \* Z21Device objects: a namespace and a name each
  Absent,           \* an object that does not exist, a nil pointer
  FailureThreshold, \* spec.healthCheck.failureThreshold, 0 when unset
  SuccessThreshold  \* spec.healthCheck.successThreshold, 0 when unset

ASSUME HealthCheckAssumption ==
  FailureThreshold \in Nat /\ SuccessThreshold \in Nat

Hardware  == "hardware"
Simulator == "simulator"

Pending  == "Pending"
Starting == "Starting"
Running  == "Running"
Failed   == "Failed"
Stopping == "Stopping"

GatewayReady    == "GatewayReady"
DeviceReachable == "DeviceReachable"
Degraded        == "Degraded"
ConditionTypes  == {GatewayReady, DeviceReachable, Degraded}

(* A Deployment's state, as its status shows it: whether it has a ready    *)
(* replica, and whether its progress deadline is exceeded.  Both may be so *)
(* (Stuck): a rollout that fails leaves the old replica running.           *)
Ready    == "ready"
Stuck    == "stuck"
Stalled  == "stalled"
Rolling  == "rolling"
States   == {Ready, Stuck, Stalled, Rolling}

HasReplica(state) == state \in {Ready, Stuck}

deploymentFailed(state) == state \in {Stuck, Stalled}

Condition == [status : BOOLEAN, generation : Nat]

(* Devices whose list of conditions has these types.                       *)
StatusesOf(types) ==
  [phase : {"", Pending, Starting, Running, Failed, Stopping},
   gateway : BOOLEAN, simulator : BOOLEAN, service : BOOLEAN, observed : Nat,
   conditions : [types -> Condition], lastSeen : {"never", "answered", "silent"}]

DevicesOf(types) ==
  [backend : {Hardware, Simulator}, finalizer : BOOLEAN, deleting : BOOLEAN,
   generation : Nat, status : StatusesOf(types)]

IsDevice(obj) == \E types \in SUBSET ConditionTypes : obj \in DevicesOf(types)

ASSUME AbsentAssumption == ~IsDevice(Absent) /\ Absent \notin States

NewStatus ==
  [phase |-> "", gateway |-> FALSE, simulator |-> FALSE, service |-> FALSE,
   observed |-> 0, conditions |-> <<>>, lastSeen |-> "never"]

NewDevice(backend) ==
  [backend |-> backend, finalizer |-> FALSE, deleting |-> FALSE, generation |-> 1,
   status |-> NewStatus]

(* meta.SetStatusCondition *)
SetCondition(list, type, status, generation) ==
  [t \in DOMAIN list \cup {type} |->
     IF t = type THEN [status |-> status, generation |-> generation] ELSE list[t]]

Shows(obj, type) ==
  obj # Absent /\ type \in DOMAIN obj.status.conditions /\ obj.status.conditions[type].status

-----------------------------------------------------------------------------
(***************************************************************************)
(* The operator's part.  gateway and simulator are states of Deployments,  *)
(* Absent when the reconcile has none to show.                             *)
(***************************************************************************)
DeploymentState(gateway, simulator) ==     \* mutant: a rollout's own state for a phase
  CASE deploymentFailed(gateway) \/ deploymentFailed(simulator) -> Failed
    [] HasReplica(gateway) /\ (simulator = Absent \/ HasReplica(simulator)) -> Running
    [] OTHER -> IF gateway # Absent THEN gateway ELSE Pending

computePhase(gateway, simulator) ==
  CASE deploymentFailed(gateway) \/ deploymentFailed(simulator) -> Failed
    [] HasReplica(gateway) /\ (simulator = Absent \/ HasReplica(simulator)) -> Running
    [] OTHER -> IF gateway # Absent \/ simulator # Absent THEN Starting ELSE Pending

StatusInput(gateway, simulator, service, phase) ==
  [gateway |-> gateway, simulator |-> simulator, service |-> service, phase |-> phase]

FieldsAreCurrent(obj, in) ==     \* mutant: without the condition
  LET s == obj.status IN
  /\ s.phase = in.phase
  /\ s.gateway = (in.gateway # Absent)
  /\ s.simulator = (in.simulator # Absent)
  /\ s.service = in.service
  /\ s.observed = obj.generation

ShownIsCurrent(obj, in) ==     \* mutant: without the observed generation
  LET s == obj.status IN
  /\ s.phase = in.phase
  /\ s.gateway = (in.gateway # Absent)
  /\ s.simulator = (in.simulator # Absent)
  /\ s.service = in.service
  /\ GatewayReady \in DOMAIN s.conditions
  /\ s.conditions[GatewayReady].status = HasReplica(in.gateway)

deviceStatusIsCurrent(obj, in) ==
  LET s == obj.status IN
  /\ FieldsAreCurrent(obj, in)
  /\ GatewayReady \in DOMAIN s.conditions
  /\ s.conditions[GatewayReady].status = HasReplica(in.gateway)

OperatorStatus(obj, in) ==
  [obj.status EXCEPT
     !.phase = in.phase,
     !.gateway = (in.gateway # Absent),
     !.simulator = (in.simulator # Absent),
     !.service = in.service,
     !.observed = obj.generation,
     !.conditions = SetCondition(@, GatewayReady, HasReplica(in.gateway), obj.generation)]

-----------------------------------------------------------------------------
(***************************************************************************)
(* The gateway's part: the tracker of consecutive probe results, and the   *)
(* two conditions it turns into.  The count of successes is only compared  *)
(* with the threshold, so it stops there; so does the count of failures.   *)
(***************************************************************************)
FailuresNeeded  == IF FailureThreshold = 0 THEN 3 ELSE FailureThreshold
SuccessesNeeded == IF SuccessThreshold = 0 THEN 1 ELSE SuccessThreshold

NewTracker == [failures |-> 0, successes |-> 0, reachable |-> FALSE, degraded |-> FALSE]

UpTo(n, bound) == IF n < bound THEN n ELSE bound

RecordSuccessDegraded(t) ==     \* mutant: a device that is back stays degraded
  [failures |-> 0, successes |-> UpTo(t.successes + 1, SuccessesNeeded),
   reachable |-> t.reachable \/ t.successes + 1 >= SuccessesNeeded, degraded |-> t.degraded]

RecordSuccess(t) ==
  LET n == UpTo(t.successes + 1, SuccessesNeeded)
      back == ~t.reachable /\ n >= SuccessesNeeded
  IN  [failures |-> 0, successes |-> n,
       reachable |-> t.reachable \/ back, degraded |-> t.degraded /\ ~back]

RecordFailure(t) ==
  LET n == UpTo(t.failures + 1, FailuresNeeded)
      lost == n >= FailuresNeeded
  IN  [failures |-> n, successes |-> 0,
       reachable |-> t.reachable /\ ~lost, degraded |-> t.degraded \/ lost]

record(t, success) == IF success THEN RecordSuccess(t) ELSE RecordFailure(t)

HealthConditions(obj, t) ==
  SetCondition(SetCondition(obj.status.conditions, DeviceReachable, t.reachable, obj.generation),
               Degraded, t.degraded, obj.generation)

(* Whether UpdateHealth's patch carries the list of conditions: it does    *)
(* when an entry changed, and the message of an unreachable device counts  *)
(* the failed probes, so it changes with each and with the first success.  *)
ListRewritten(obj, t) ==
  \/ HealthConditions(obj, t) # obj.status.conditions
  \/ ~t.reachable /\ (t.failures > 0 \/ t.successes = 1)

=============================================================================
