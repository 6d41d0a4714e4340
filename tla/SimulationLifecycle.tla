------------------------ MODULE SimulationLifecycle ------------------------
(***************************************************************************)
(* Simulations as a whole: requests to the HTTP API and users who edit the *)
(* objects, the controller that drives the simulator, the simulator, and   *)
(* the LAN clients that subscribe to it, poll it and change its power.     *)
(***************************************************************************)
EXTENDS SimulateRequests, SimulationController

CONSTANTS
  Manifests,   \* simulations a user may create
  Scenarios    \* how a behaviour starts, and what it may hold at most:
               \* mix being the packets each client may send and bodies the
               \* lists that requests may carry

ASSUME ManifestsAssumption ==
  \A m \in Manifests : IsSimulation(NewSimulation(m.ref, m.detectors, m.boosters))

ASSUME ScenariosAssumption ==
  \A s \in Scenarios :
    /\ DOMAIN s = {"device", "up", "mix", "bodies", "requests", "calls", "packets", "edits", "faults"}
    /\ s.device \in {Absent, Hardware, Simulator} /\ s.up \in BOOLEAN
    /\ s.mix \in [Client -> SUBSET Seq(LanMessage)]
    /\ \A body \in s.bodies : IsBody(body)
    /\ <<s.requests, s.calls, s.packets, s.edits, s.faults>> \in Seq(Nat)

VARIABLE left  \* bound: what is left of the scenario's counts

vars == <<simVars, storeVars, requestVars, controllerVars, left>>

Init ==
  /\ left \in Scenarios
  /\ up = left.up
  /\ ServerInit
  /\ simulation = [n \in SimName |-> Absent]
  /\ device = [v \in Device |-> IF v = Simulated THEN left.device ELSE Hardware]
  /\ watch = NoEvents
  /\ RequestInit
  /\ ControllerInit

Spend(what) == left[what] > 0 /\ left' = [left EXCEPT ![what] = @ - 1]

-----------------------------------------------------------------------------
(* Users: simulations applied and deleted, devices made and removed.       *)
CreateSimulation(n) ==
  /\ simulation[n] = Absent
  /\ \E m \in Manifests : PutSimulation(n, NewSimulation(m.ref, m.detectors, m.boosters))
  /\ UNCHANGED overruled

DeleteSimulation(n) ==
  /\ simulation[n] # Absent
  /\ PutSimulation(n, Absent)
  /\ overruled' = TRUE

EditDevice ==
  /\ PutDevice(Simulated, IF device[Simulated] = Absent THEN Simulator ELSE Absent)
  /\ UNCHANGED overruled

(* The running reconcile's copy grows old when another writes the object.  *)
Outdates == run' = IF run # NoRun /\ simulation'[run.name] # simulation[run.name]
                   THEN [run EXCEPT !.latest = FALSE] ELSE run

UserEdits ==
  /\ Spend("edits")
  /\ (\E n \in SimName : CreateSimulation(n) \/ DeleteSimulation(n)) \/ EditDevice
  /\ Outdates
  /\ UNCHANGED <<simVars, request, cached, queue, disturbed>>

Asks(r) ==
  /\ Spend("requests")
  /\ \E n \in SimName, v \in Device, body \in left.bodies : Submit(r, n, v, body)
  /\ UNCHANGED <<simVars, controllerVars>>

Api(r) ==
  /\ simulateCAN(r)
  /\ Outdates
  /\ UNCHANGED <<simVars, cached, queue, disturbed, left>>

-----------------------------------------------------------------------------
Informer(kind) == Deliver(kind) /\ UNCHANGED <<simVars, requestVars, left>>

StartReconcile(n) == Reconcile(n) /\ UNCHANGED <<requestVars, left>>

Controller == ReconcileStep /\ UNCHANGED <<requestVars, left>>

Others == UNCHANGED <<storeVars, requestVars, controllerVars>>

Sends(c) == Spend("packets") /\ (\E msgs \in left.mix[c] : Receive(c, msgs)) /\ Others

Calls(t) ==
  /\ Spend("calls")
  /\ (\E on \in BOOLEAN : SetTrackPowerAndNotify(t, on)) \/ BroadcastSystemState(t)
  /\ Others

LanThread == handlePacket /\ Others /\ UNCHANGED left

Announcing(t) == ThreadStep(t) /\ Others /\ UNCHANGED left

(* The simulator is started only for a device with this backend, and ends  *)
(* when it fails or when the device no longer asks for it.                 *)
SimulatorStarts ==
  /\ device[Simulated] = Simulator
  /\ Start
  /\ UNCHANGED left /\ Others

SimulatorStops ==
  /\ IF device[Simulated] = Simulator THEN Spend("faults") ELSE UNCHANGED left
  /\ Stop
  /\ disturbed' = SimName
  /\ run' = IF run.stage = "wait" THEN [CallFailed(run) EXCEPT !.clean = FALSE]
            ELSE IF run = NoRun THEN NoRun ELSE [run EXCEPT !.clean = FALSE]
  /\ UNCHANGED <<storeVars, requestVars, cached, queue>>

Faults ==
  /\ Spend("faults")
  /\ UNCHANGED requestVars
  /\ \/ CallFails \/ StatusUpdateFails \/ RestartController
     \/ RepliesLost /\ Others
     \/ (\E t \in Thread, c \in Client : DatagramLost(t, c)) /\ Others

Next ==
  \/ UserEdits
  \/ \E r \in Request : Asks(r) \/ Api(r)
  \/ \E kind \in {"simulation", "device"} : Informer(kind)
  \/ \E n \in SimName : StartReconcile(n)
  \/ Controller
  \/ \E c \in Client : Sends(c)
  \/ LanThread
  \/ \E t \in Caller : Calls(t)
  \/ \E t \in Thread : Announcing(t)
  \/ SimulatorStarts \/ SimulatorStops
  \/ Faults

Spec == Init /\ [][Next]_vars

-----------------------------------------------------------------------------
(* The simulator, the objects, the caches and the running reconcile hold   *)
(* only what the code can put into them.                                   *)
MaybeDevice == CANDevice \cup {Absent}

JobOK(j) ==
  /\ j.stage \in {"idle", "status", "system", "list", "send"}
  /\ j.to \subseteq Client /\ j.except \in Client \cup {Absent}
  /\ j.stage \in {"list", "send"} <=> j.fact.says # Absent
  /\ j.stage = "send" <=> j.to # {}

ObjectOK(obj) ==
  obj # Absent =>
    /\ IsSimulation(obj)
    /\ obj.observed <= obj.generation
    /\ obj.phase = Failed <=> obj.message # NoReason

TypeOK ==
  /\ \A c \in Client : session[c] = Absent \/ session[c] \subseteq Flag
  /\ trackPower \in BOOLEAN
  /\ canDevices \in [NetID -> MaybeDevice]
  /\ \A t \in Thread : JobOK(job[t])
  /\ ~up => packet = NoPacket /\ \A t \in Thread : job[t] = Idle
  /\ due \subseteq Client /\ blurred \subseteq Topic /\ polled \subseteq Client
  /\ \A n \in SimName : ObjectOK(simulation[n]) /\ ObjectOK(cached.simulation[n])
  /\ queue \subseteq SimName
  /\ run.stage \in {"idle", "call", "wait", "status"}
  /\ run.stage = "wait" <=> run.thread \in Caller

(* The status of a simulation counts what is there: as many of its CAN     *)
(* devices, from the first on, as it says are registered on the simulator, *)
(* and all of them when it says Applied, whatever call failed and however  *)
(* old the copy was, unless the simulator has stopped since.               *)
AppliedCountIsTrue ==
  \A n \in SimName :
    LET obj == simulation[n] IN
    obj # Absent /\ obj.observed = obj.generation /\ n \notin disturbed =>
      LET list == CANDevices(obj) IN
      /\ obj.phase = Applied => obj.applied = Len(list)
      /\ \A i \in 1 .. obj.applied : IsKind(canDevices[list[i].net], list[i].device.kind)

(* The detectors of a request that was answered stay in its simulation,    *)
(* unless a request that had read an older list replaced it.               *)
AnsweredIsKept ==
  ~overruled => \A r \in Request :
    request[r].stage = "ok" =>
      /\ simulation[request[r].sim] # Absent
      /\ DOMAIN request[r].body \subseteq DOMAIN simulation[request[r].sim].detectors

-----------------------------------------------------------------------------
(***************************************************************************)
(* Fairness.  Threads, handlers and the reconcile loop go on, watch events *)
(* are delivered and queued simulations reconciled.  What each of these    *)
(* has to do is finite, so that it is enough to ask it of them together.   *)
(***************************************************************************)
Fairness ==
  /\ WF_vars(LanThread)
  /\ WF_vars(\E t \in Thread : Announcing(t))
  /\ WF_vars(\E r \in Request : Api(r))
  /\ WF_vars(\E kind \in {"simulation", "device"} : Informer(kind))
  /\ WF_vars(\E n \in SimName : StartReconcile(n))
  /\ WF_vars(Controller)

FairSpec == Spec /\ Fairness

Serves == up /\ device[Simulated] = Simulator

(* While the simulator keeps running, the detectors of an answered request *)
(* get to it, although one call fails or the controller restarts: a failed *)
(* call is repeated because the status that tells of it wakes the          *)
(* controller, and for no other reason.                                    *)
RequestTakesEffect ==
  []Serves => \A r \in Request : \A n \in NetID :
    (request[r].stage = "ok" /\ n \in DOMAIN request[r].body)
      ~> (overruled \/ IsKind(canDevices[n], Detector))

(* While the simulator keeps running, every simulation of its device ends  *)
(* up shown as applied in its latest generation.                           *)
EventuallyApplied ==
  []Serves => \A n \in SimName :
    <>[](simulation[n] # Absent /\ simulation[n].ref = Simulated
         => simulation[n].phase = Applied /\ simulation[n].observed = simulation[n].generation)

=============================================================================
