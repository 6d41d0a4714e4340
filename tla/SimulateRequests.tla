-------------------------- MODULE SimulateRequests --------------------------
(***************************************************************************)
(* POST .../simulate of the HTTP API: each request reads the device, reads *)
(* the simulation, and then creates it or patches the list of detectors it *)
(* computed from the copy it read.  Requests run concurrently, and the API *)
(* reads from the API server, not from a cache.  elpctl sends them too.    *)
(***************************************************************************)
EXTENDS SimulationStore

CONSTANTS
  Request    \* requests

VARIABLES
  request,   \* what each request is doing, and how it was answered
  overruled  \* history: a list of detectors replaced a newer one than its request
             \* had read, or a user deleted a simulation

requestVars == <<request, overruled>>

(* The list of detectors of a request: net IDs, or 0, with an address or 0.*)
IsBody(body) == \E netIDs \in SUBSET (NetID \cup {0}) : body \in [netIDs -> Nat]

NewRequest == [stage |-> "new", sim |-> Absent, ref |-> Absent, body |-> <<>>, read |-> Absent]

RequestInit ==
  /\ request = [r \in Request |-> NewRequest]
  /\ overruled = FALSE

Becomes(r, stage) == request' = [request EXCEPT ![r].stage = stage]

(* detectorsFromAPI, for a body without net ID 0.                          *)
detectorsFromAPI(body) == [n \in DOMAIN body |-> Default(body[n])]

MergeReplaces(existing, incoming) == incoming    \* mutant: the list of the request alone

mergeCANDetectors(existing, incoming) ==
  [n \in DOMAIN existing \cup DOMAIN incoming |->
     IF n \in DOMAIN incoming THEN incoming[n] ELSE existing[n]]

-----------------------------------------------------------------------------
(* elpctl simulate can: the detectors of the net IDs given, or the default *)
(* one, and a module address if it is given and there is but one detector. *)
defaultDetectorNetID == 56068   \* 0xDB04

DetectorsFromNetIDs(netIDs) ==
  [n \in IF netIDs = {} THEN {defaultDetectorNetID} ELSE netIDs |-> 1]

SimulateCommand(netIDs, moduleAddress) ==
  LET detectors == DetectorsFromNetIDs(netIDs) IN
  IF Cardinality(DOMAIN detectors) = 1 /\ moduleAddress # Absent
  THEN [n \in DOMAIN detectors |-> moduleAddress] ELSE detectors

-----------------------------------------------------------------------------
Submit(r, n, v, body) ==
  /\ request[r].stage = "new"
  /\ request' = [request EXCEPT ![r] = [NewRequest EXCEPT
                   !.stage = "device", !.sim = n, !.ref = v, !.body = body]]
  /\ UNCHANGED <<storeVars, overruled>>

(* An empty list, a missing device or one that is no simulator, and a net  *)
(* ID 0 are refused.                                                       *)
getDevice(r) ==
  /\ request[r].stage = "device"
  /\ IF /\ DOMAIN request[r].body # {}
        /\ device[request[r].ref] = Simulator
        /\ 0 \notin DOMAIN request[r].body
     THEN Becomes(r, "simulation") ELSE Becomes(r, "refused")
  /\ UNCHANGED <<storeVars, overruled>>

getSimulation(r) ==
  LET obj == simulation[request[r].sim] IN
  /\ request[r].stage = "simulation"
  /\ IF obj # Absent /\ obj.ref # request[r].ref THEN Becomes(r, "refused")
     ELSE request' = [request EXCEPT ![r].stage = "write", ![r].read = obj]
  /\ UNCHANGED <<storeVars, overruled>>

createSimulation(r) ==
  LET q == request[r] IN
  /\ q.stage = "write" /\ q.read = Absent
  /\ IF simulation[q.sim] = Absent
     THEN /\ PutSimulation(q.sim, NewSimulation(q.ref, detectorsFromAPI(q.body), <<>>))
          /\ Becomes(r, "ok")
     ELSE Becomes(r, "refused") /\ UNCHANGED storeVars
  /\ UNCHANGED overruled

patchSimulation(r) ==
  LET q   == request[r]
      now == simulation[q.sim]
      new == [q.read EXCEPT !.detectors = mergeCANDetectors(@, detectorsFromAPI(q.body))]
  IN  /\ q.stage = "write" /\ q.read # Absent
      /\ IF now = Absent THEN Becomes(r, "refused") /\ UNCHANGED <<storeVars, overruled>>
         ELSE /\ PutSimulation(q.sim, MergePatch(now, q.read, new))
              /\ Becomes(r, "ok")
              /\ overruled' = \/ overruled
                              \/ /\ new.detectors # q.read.detectors
                                 /\ now.detectors # q.read.detectors

simulateCAN(r) == getDevice(r) \/ getSimulation(r) \/ createSimulation(r) \/ patchSimulation(r)

=============================================================================
