------------------------ MODULE SimulationController ------------------------
(***************************************************************************)
(* The simulation controller: one reconcile at a time over a cache of      *)
(* Simulation and Z21Device objects, a call to the simulator for each CAN  *)
(* device of the simulation, and the status written at the end.  Only      *)
(* Simulation objects wake it, its own status writes among them.           *)
(***************************************************************************)
EXTENDS SimulationStore

VARIABLES
  cached,      \* the controller's copies: simulations and devices by name
  queue,       \* simulations to reconcile
  run,         \* the running reconcile
  disturbed    \* history: simulations whose simulator stopped since the
               \* reconcile that their status tells of began

controllerVars == <<cached, queue, run, disturbed>>

(* stage "call": about to call for the head of todo; "wait": in that call, *)
(* on the simulator's thread.                                              *)
NoRun == [name |-> Absent, obj |-> Absent, stage |-> "idle", todo |-> <<>>, count |-> 0,
          phase |-> NoPhase, message |-> NoReason, thread |-> Absent, latest |-> TRUE, clean |-> TRUE]

ControllerInit ==
  /\ cached = [simulation |-> simulation, device |-> device]
  /\ queue = {n \in SimName : simulation[n] # Absent}
  /\ run = NoRun
  /\ disturbed = {}

-----------------------------------------------------------------------------
Deliver(kind) ==
  /\ watch[kind] # <<>>
  /\ watch' = [watch EXCEPT ![kind] = Tail(@)]
  /\ LET e == Head(watch[kind])
     IN  /\ cached' = [cached EXCEPT ![kind][e.name] = e.obj]
         /\ queue' = IF kind = "simulation" THEN queue \cup {e.name} ELSE queue
  /\ UNCHANGED <<simulation, device, run, disturbed>>

InOrder(netIDs) ==
  CHOOSE s \in [1 .. Cardinality(netIDs) -> netIDs] : \A i, j \in DOMAIN s : i < j => s[i] < s[j]

(* The calls a simulation asks for: detectors, then boosters, in order.    *)
CallsFor(list, kind) ==
  LET order == InOrder(DOMAIN list)
  IN  [i \in DOMAIN order |->
         [net |-> order[i], device |-> BuildCANDevice(kind, Default(list[order[i]]))]]

CANDevices(obj) == CallsFor(obj.detectors, Detector) \o CallsFor(obj.boosters, Booster)

Ending(r, phase, message) == [r EXCEPT !.stage = "status", !.thread = Absent, !.phase = phase, !.message = message]

ReconcileOnce(n) ==   \* mutant: passes over what its generation was already tried for
  LET obj == cached.simulation[n] IN
  /\ run = NoRun /\ n \in queue
  /\ queue' = queue \ {n}
  /\ run' = IF obj = Absent \/ obj.observed = obj.generation THEN NoRun
            ELSE [NoRun EXCEPT !.name = n, !.obj = obj, !.latest = ~Undelivered(n),
                               !.stage = "call", !.todo = CANDevices(obj)]
  /\ UNCHANGED <<storeVars, cached, disturbed, simVars>>

Reconcile(n) ==
  LET obj == cached.simulation[n]
      new == [NoRun EXCEPT !.name = n, !.obj = obj, !.latest = ~Undelivered(n)]
      backend == cached.device[obj.ref]
  IN  /\ run = NoRun /\ n \in queue
      /\ queue' = queue \ {n}
      /\ run' = IF obj = Absent THEN NoRun
                ELSE IF obj.ref = Absent THEN Ending(new, Failed, "deviceRef")
                ELSE IF backend = Absent THEN Ending(new, Failed, "not found")
                ELSE IF backend # Simulator THEN Ending(new, Failed, "backend")
                ELSE [new EXCEPT !.stage = "call", !.todo = CANDevices(obj)]
      /\ UNCHANGED <<storeVars, cached, disturbed, simVars>>

CountFailed(r) ==     \* mutant: counted although the call failed
  [Ending(r, Failed, "register") EXCEPT !.count = @ + 1]

CallFailed(r) == Ending(r, Failed, "register")

(* applyCANDevices: the next call; the first error ends it.                *)
StartCall ==
  /\ run.stage = "call" /\ run.todo # <<>>
  /\ IF up
     THEN \E t \in Caller :
            /\ NotifyCANDeviceDetected(t, Head(run.todo).net, Head(run.todo).device)
            /\ run' = [run EXCEPT !.stage = "wait", !.thread = t]
     ELSE run' = CallFailed(run) /\ UNCHANGED simVars
  /\ UNCHANGED <<storeVars, cached, queue, disturbed>>

ReturnCall ==
  /\ run.stage = "wait" /\ job[run.thread] = Idle
  /\ run' = [run EXCEPT !.stage = "call", !.todo = Tail(@), !.count = @ + 1, !.thread = Absent]
  /\ UNCHANGED <<storeVars, cached, queue, disturbed, simVars>>

AllCalled ==
  /\ run.stage = "call" /\ run.todo = <<>>
  /\ run' = Ending(run, Applied, NoReason)
  /\ UNCHANGED <<storeVars, cached, queue, disturbed, simVars>>

(* A call that fails, although the simulator may go on with it.            *)
CallFails ==
  /\ run.stage = "wait"
  /\ run' = CallFailed(run)
  /\ UNCHANGED <<storeVars, cached, queue, disturbed, simVars>>

-----------------------------------------------------------------------------
StatusKeepsMessage(r) ==  \* mutant: success leaves the last failure's message
  [r.obj EXCEPT !.phase = r.phase, !.message = IF r.message = NoReason THEN @ ELSE r.message,
                !.applied = r.count, !.observed = r.obj.generation]

StatusOf(r) ==
  [r.obj EXCEPT !.phase = r.phase, !.message = r.message, !.applied = r.count,
                !.observed = r.obj.generation]

(* The status tells of a reconcile; did the simulator last through it?     *)
ToldOf(r) == disturbed' = IF r.clean THEN disturbed \ {r.name} ELSE disturbed \cup {r.name}

StatusIsCurrent ==
  /\ StatusOf(run) = run.obj
  /\ IF run.latest THEN ToldOf(run) ELSE UNCHANGED disturbed
  /\ run' = NoRun
  /\ UNCHANGED <<storeVars, cached, queue>>

WriteStatus(answered) ==
  /\ StatusOf(run) # run.obj
  /\ run.latest
  /\ PutSimulation(run.name, StatusOf(run))
  /\ ToldOf(run)
  /\ queue' = IF answered THEN queue ELSE queue \cup {run.name}
  /\ run' = NoRun
  /\ UNCHANGED cached

StatusDropped ==      \* mutant: a refused status is only logged
  /\ StatusOf(run) # run.obj
  /\ run' = NoRun
  /\ UNCHANGED <<queue, storeVars, cached, disturbed>>

(* A conflict, or any other error: the simulation is reconciled again.     *)
StatusRefused ==
  /\ StatusOf(run) # run.obj
  /\ queue' = queue \cup {run.name}
  /\ run' = NoRun
  /\ UNCHANGED <<storeVars, cached, disturbed>>

patchStatus ==
  /\ run.stage = "status"
  /\ StatusIsCurrent \/ WriteStatus(TRUE) \/ (~run.latest /\ StatusRefused)
  /\ UNCHANGED simVars

StatusUpdateFails ==
  /\ run.stage = "status"
  /\ WriteStatus(FALSE) \/ StatusRefused
  /\ UNCHANGED simVars

ReconcileStep == StartCall \/ ReturnCall \/ AllCalled \/ patchStatus

(* A restarted controller lists everything and reconciles it all.          *)
RestartController ==
  /\ cached' = [simulation |-> simulation, device |-> device]
  /\ queue' = {n \in SimName : simulation[n] # Absent}
  /\ run' = NoRun
  /\ watch' = NoEvents
  /\ UNCHANGED <<simulation, device, disturbed, simVars>>

=============================================================================
