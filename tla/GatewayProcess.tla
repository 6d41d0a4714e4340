--------------------------- MODULE GatewayProcess ---------------------------
(***************************************************************************)
(* A running z21-gateway, as far as it reports on its device: Run's loop,  *)
(* which dials the Z21, shakes hands and bridges, and the health loop      *)
(* beside it, which probes the Z21 with a session of its own.  Both write  *)
(* the device's status with Get and Patch; the gateway reads the API       *)
(* server, not a cache.                                                    *)
(***************************************************************************)
EXTENDS DeviceController

CONSTANT
  Loops      \* bound: the gateway's loops a model follows, subset of {"session", "health"}

ASSUME LoopsAssumption == Loops \subseteq {"session", "health"}

VARIABLES
  pod,       \* by device name: the gateway process, or Absent
  answers    \* devices whose Z21 answers at present

gatewayVars == <<pod, answers>>

NoPatch == [pending |-> FALSE]

NewPod(content) ==
  [content |-> content, session |-> "started", tracker |-> NewTracker, patch |-> NoPatch]

GatewayInit == pod = [n \in Name |-> Absent]

Served(n) == pod[n].content.of

(* The gateway may read and patch its device: the device exists and its    *)
(* RoleBinding names the gateway's ServiceAccount.                         *)
MayPatch(n) == device[Served(n)] # Absent /\ Served(n) \in rbac

-----------------------------------------------------------------------------
(***************************************************************************)
(* Run.  UpdateSession writes LastSeen, and what the handshake learnt, in  *)
(* one Get and one Patch of fields nobody else writes; its errors are only *)
(* logged.                                                                 *)
(***************************************************************************)
UpdateSession(n, seen) ==
  LET d == Served(n) IN
  IF MayPatch(n) THEN Put(d, [device[d] EXCEPT !.status.lastSeen = seen])
                 ELSE UNCHANGED <<device, watch>>

markZ21Connected(n)    == UpdateSession(n, "answered")
markZ21Disconnected(n) == UpdateSession(n, "silent")

Session(n, from, to) ==
  /\ pod[n].session = from
  /\ pod' = [pod EXCEPT ![n].session = to]

Run(n) ==
  /\ "session" \in Loops
  /\ pod[n] # Absent
  /\ \/ Session(n, "started", "dialing") /\ markZ21Disconnected(n)
     \/ /\ Served(n) \in answers
        /\ Session(n, "dialing", "bridged") \/ Session(n, "bridged", "bridged")
        /\ markZ21Connected(n)
     \/ /\ Served(n) \notin answers
        /\ Session(n, "dialing", "dialing") \/ Session(n, "bridged", "dialing")
        /\ markZ21Disconnected(n)
  /\ UNCHANGED <<cached, workload, rbac, trace, answers>>

-----------------------------------------------------------------------------
(***************************************************************************)
(* HealthLoop.  A tick reads the health check's configuration, probes and  *)
(* records the result; UpdateHealth reads the device, sets two conditions  *)
(* and patches.  Every tick has something to patch (Changed): a failure    *)
(* changes the count of failures, a success the time of the last one.      *)
(***************************************************************************)
TrackerChanged(t, u) ==     \* mutant: the counts are not compared
  t.reachable # u.reachable \/ t.degraded # u.degraded

Changed(t, u) == TRUE

Tick(n) ==
  /\ "health" \in Loops
  /\ pod[n] # Absent
  /\ ~pod[n].patch.pending
  /\ MayPatch(n)
  /\ LET obj == device[Served(n)]
         t == record(pod[n].tracker, Served(n) \in answers)
     IN  pod' = [pod EXCEPT
           ![n].tracker = t,
           ![n].patch = IF Changed(pod[n].tracker, t)
                        THEN [pending |-> TRUE, rewrites |-> ListRewritten(obj, t),
                              conditions |-> HealthConditions(obj, t)]
                        ELSE NoPatch]
  /\ UNCHANGED <<storeVars, answers>>

UpdateHealth(n) ==
  /\ pod[n] # Absent
  /\ pod[n].patch.pending
  /\ pod' = [pod EXCEPT ![n].patch = NoPatch]
  /\ LET d == Served(n)
         patch == pod[n].patch
     IN  IF MayPatch(n)
         THEN Put(d, [device[d] EXCEPT !.status.conditions =
                        IF patch.rewrites THEN patch.conditions ELSE @])
         ELSE UNCHANGED <<device, watch>>
  /\ UNCHANGED <<cached, workload, rbac, trace, answers>>

GatewayStep(n) == Run(n) \/ Tick(n) \/ UpdateHealth(n)

(* A patch of the status is lost: the error is logged, the next tick tries again. *)
PatchLost(n) ==
  /\ pod[n] # Absent
  /\ pod[n].patch.pending
  /\ pod' = [pod EXCEPT ![n].patch = NoPatch]
  /\ UNCHANGED <<storeVars, answers>>

-----------------------------------------------------------------------------
(***************************************************************************)
(* The cluster: a pod runs what its Deployment says, and the Deployment    *)
(* says whether it is ready.                                               *)
(***************************************************************************)
StartPod(n) ==
  /\ workload[n].gateway # Absent
  /\ pod[n] # Absent => pod[n].content # workload[n].gateway.content
  /\ pod' = [pod EXCEPT ![n] = NewPod(workload[n].gateway.content)]
  /\ UNCHANGED <<storeVars, answers>>

StopPod(n) ==
  /\ workload[n].gateway = Absent
  /\ pod[n] # Absent
  /\ pod' = [pod EXCEPT ![n] = Absent]
  /\ UNCHANGED <<storeVars, answers>>

PodDies(n) ==
  /\ pod[n] # Absent
  /\ pod' = [pod EXCEPT ![n] = Absent]
  /\ UNCHANGED <<storeVars, answers>>

RolledOut(n) == pod[n] # Absent /\ pod[n].content = workload[n].gateway.content

(* A gateway is ready once it is connected to NATS and has its reporter,   *)
(* before it has met the Z21.  A rollout that is not complete may exceed   *)
(* its deadline, with the replica it is to replace or without one, and a   *)
(* new one begins a deadline of its own.                                   *)
ObserveGateway(n) ==
  /\ workload[n].gateway # Absent
  /\ \E state \in States :
       /\ HasReplica(state) <=> pod[n] # Absent
       /\ deploymentFailed(state) => ~RolledOut(n)
       /\ state # workload[n].gateway.state
       /\ workload' = [workload EXCEPT ![n].gateway.state = state]
  /\ UNCHANGED <<device, cached, watch, rbac, trace, gatewayVars>>

ObserveSimulator(n) ==
  /\ workload[n].simulator # Absent
  /\ workload[n].simulator.state # Ready
  /\ workload' = [workload EXCEPT ![n].simulator.state = Ready]
  /\ UNCHANGED <<device, cached, watch, rbac, trace, gatewayVars>>

ClusterStep(n) == StartPod(n) \/ StopPod(n) \/ ObserveGateway(n) \/ ObserveSimulator(n)

=============================================================================
