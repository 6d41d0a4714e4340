-------------------------- MODULE SimulationStore --------------------------
(***************************************************************************)
(* Simulation and Z21Device objects as the API server keeps them, and the  *)
(* watch streams that fill the simulation controller's caches.             *)
(*                                                                         *)
(* A simulation's lists of detectors and boosters are functions from their *)
(* net IDs to a module address or an output, in the order of the net IDs,  *)
(* which is that of every patched list; lists that name a net ID twice are *)
(* left out.                                                               *)
(***************************************************************************)
EXTENDS SimulatorServer, ApiServer

CONSTANTS
  SimName,     \* names of Simulation objects
  Device,      \* names of Z21Device objects
  Simulated,   \* the device whose simulator this is
  MaxLag       \* bound: undelivered watch events of one kind

NoPhase == ""
Applied == "Applied"
Failed  == "Failed"

(* Why a simulation failed.  Which registration did follows from the count *)
(* of those before it.                                                     *)
NoReason == ""
Reason   == {NoReason, "deviceRef", "not found", "backend", "register"}

(* Simulations that list these detectors and these boosters.               *)
SimulationsOf(detectors, boosters) ==
  [ref : Device \cup {Absent}, detectors : [detectors -> Nat], boosters : [boosters -> Nat],
   generation : Nat, phase : {NoPhase, Applied, Failed}, message : Reason,
   applied : Nat, observed : Nat]

IsSimulation(obj) == \E d, b \in SUBSET NetID : obj \in SimulationsOf(d, b)

ASSUME StoreAssumption ==
  /\ Simulated \in Device /\ MaxLag \in Nat \ {0}
  /\ Absent \notin Device /\ ~IsSimulation(Absent)

VARIABLES
  simulation,  \* Simulation objects by name
  device,      \* backend types by Z21Device name, Absent without an object
  watch        \* undelivered watch events, oldest first

storeVars == <<simulation, device, watch>>

Hardware  == "hardware"
Simulator == "simulator"

NewSimulation(ref, detectors, boosters) ==
  [ref |-> ref, detectors |-> detectors, boosters |-> boosters, generation |-> 1,
   phase |-> NoPhase, message |-> NoReason, applied |-> 0, observed |-> 0]

SpecOf(obj) == <<obj.ref, obj.detectors, obj.boosters>>

-----------------------------------------------------------------------------
(* A write that changes nothing makes no event; one that changes the spec  *)
(* makes a new generation.                                                 *)
Publish(kind, name, obj) ==
  /\ Len(watch[kind]) < MaxLag
  /\ watch' = [watch EXCEPT ![kind] = Append(@, [name |-> name, obj |-> obj])]

PutSimulation(n, obj) ==
  LET old == simulation[n]
      new == IF Absent \in {old, obj} \/ SpecOf(old) = SpecOf(obj) THEN obj
             ELSE [obj EXCEPT !.generation = @ + 1]
  IN  /\ simulation' = [simulation EXCEPT ![n] = new]
      /\ IF new = old THEN UNCHANGED watch ELSE Publish("simulation", n, new)
      /\ UNCHANGED device

PutDevice(v, backend) ==
  /\ device' = [device EXCEPT ![v] = backend]
  /\ Publish("device", v, backend)
  /\ UNCHANGED simulation

NoEvents == [simulation |-> <<>>, device |-> <<>>]

Undelivered(n) == \E i \in DOMAIN watch.simulation : watch.simulation[i].name = n

=============================================================================
