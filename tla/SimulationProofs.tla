-------------------------- MODULE SimulationProofs --------------------------
(***************************************************************************)
(* Simulations for any names, net IDs, requests, users, clients, threads,  *)
(* lag of the watch, faults and restarts: what a request was answered for  *)
(* stays in its simulation although the controller writes statuses from    *)
(* copies of it; what such a status counts is there; and the simulator,    *)
(* called by the controller and others, tells its clients what they are to *)
(* know.                                                                   *)
(***************************************************************************)
EXTENDS SimulationLifecycle, SimulatorProofs

Simulations == UNION {SimulationsOf(d, b) : d, b \in SUBSET NetID}

MaybeSimulation == Simulations \cup {Absent}

Bodies == UNION {[d -> Nat] : d \in SUBSET (NetID \cup {0})}

Backend == {Absent, Hardware, Simulator}

Event(names, objects) == [name : names, obj : objects]

RequestState ==
  [stage : {"new", "device", "simulation", "write", "ok", "refused"}, sim : SimName \cup {Absent},
   ref : Device \cup {Absent}, body : Bodies, read : MaybeSimulation]

-----------------------------------------------------------------------------
(* Objects.                                                                *)
LEMMA SimulationsAreObjects ==
  /\ \A obj : IsSimulation(obj) <=> obj \in Simulations
  /\ Absent \notin Simulations
BY StoreAssumption DEF IsSimulation, Simulations

Fields == {"ref", "detectors", "boosters", "generation", "phase", "message", "applied", "observed"}

LEMMA SimulationFields ==
  ASSUME NEW obj \in Simulations
  PROVE  /\ obj = [f \in Fields |-> obj[f]]
         /\ obj.ref \in Device \cup {Absent} /\ obj.generation \in Nat
         /\ DOMAIN obj.detectors \in SUBSET NetID /\ obj.detectors \in [DOMAIN obj.detectors -> Nat]
         /\ DOMAIN obj.boosters \in SUBSET NetID /\ obj.boosters \in [DOMAIN obj.boosters -> Nat]
         /\ obj.phase \in {NoPhase, Applied, Failed} /\ obj.message \in Reason
         /\ obj.applied \in Nat /\ obj.observed \in Nat
<1>1. PICK d \in SUBSET NetID, b \in SUBSET NetID : obj \in SimulationsOf(d, b)
  BY DEF Simulations
<1> QED
  BY <1>1 DEF SimulationsOf, Fields

LEMMA FieldsMakeSimulation ==
  ASSUME NEW obj, obj = [f \in Fields |-> obj[f]],
         obj.ref \in Device \cup {Absent}, obj.generation \in Nat,
         NEW d \in SUBSET NetID, obj.detectors \in [d -> Nat],
         NEW b \in SUBSET NetID, obj.boosters \in [b -> Nat],
         obj.phase \in {NoPhase, Applied, Failed}, obj.message \in Reason,
         obj.applied \in Nat, obj.observed \in Nat
  PROVE  obj \in Simulations
<1>1. obj \in SimulationsOf(d, b)
  BY DEF SimulationsOf, Fields
<1> QED
  BY <1>1 DEF Simulations

LEMMA NextGeneration ==
  ASSUME NEW obj \in Simulations
  PROVE  LET new == [obj EXCEPT !.generation = @ + 1]
         IN  new \in Simulations /\ new.detectors = obj.detectors
<1> DEFINE new == [obj EXCEPT !.generation = @ + 1]
<1>1. /\ new = [f \in Fields |-> new[f]] /\ new.generation \in Nat
      /\ \A f \in Fields \ {"generation"} : new[f] = obj[f]
  BY SimulationFields DEF Fields
<1>2. new \in Simulations
  <2>1. /\ new.ref = obj.ref /\ new.detectors = obj.detectors /\ new.boosters = obj.boosters
        /\ new.phase = obj.phase /\ new.message = obj.message
        /\ new.applied = obj.applied /\ new.observed = obj.observed
    BY <1>1 DEF Fields
  <2> HIDE DEF new
  <2> QED
    BY <1>1, <2>1, SimulationFields, FieldsMakeSimulation
<1> QED
  BY <1>1, <1>2 DEF Fields

(* A status replaces no list.                                              *)
LEMMA StatusKeepsLists ==
  ASSUME NEW r, r.obj \in Simulations, r.phase \in {NoPhase, Applied, Failed},
         r.message \in Reason, r.count \in Nat
  PROVE  StatusOf(r) \in Simulations /\ StatusOf(r).detectors = r.obj.detectors
<1> DEFINE obj == r.obj
           new == StatusOf(r)
<1>1. /\ new = [f \in Fields |-> new[f]]
      /\ new.ref = obj.ref /\ new.detectors = obj.detectors /\ new.boosters = obj.boosters
      /\ new.generation = obj.generation /\ new.phase = r.phase /\ new.message = r.message
      /\ new.applied = r.count /\ new.observed = obj.generation
  <2>1. new = [obj EXCEPT !.phase = r.phase, !.message = r.message, !.applied = r.count,
                          !.observed = r.obj.generation]
    BY DEF StatusOf
  <2>2. obj = [f \in Fields |-> obj[f]]
    BY SimulationFields
  <2> HIDE DEF obj, new
  <2>3. obj.generation = r.obj.generation
    BY DEF obj
  <2> QED
    BY <2>1, <2>2, <2>3 DEF Fields
<1> HIDE DEF new
<1>2. new \in Simulations
  BY <1>1, SimulationFields, FieldsMakeSimulation, SMTT(30)
<1> QED
  BY <1>1, <1>2 DEF new

(* A patch made from the copy read replaces the list of detectors with the *)
(* merged one, or, when that is the list it read, leaves it alone.         *)
LEMMA PatchOfSimulation ==
  ASSUME NEW now \in Simulations, NEW read \in Simulations,
         NEW d \in SUBSET NetID, NEW list \in [d -> Nat]
  PROVE  LET new == [read EXCEPT !.detectors = list]
             put == MergePatch(now, read, new)
         IN  /\ put \in Simulations
             /\ new.detectors = list
             /\ put.detectors = IF list # read.detectors THEN list ELSE now.detectors
<1> DEFINE new == [read EXCEPT !.detectors = list]
           put == MergePatch(now, read, new)
<1>1. new.detectors = list /\ \A f \in Fields \ {"detectors"} : new[f] = read[f]
  BY SimulationFields DEF Fields
<1>2. DOMAIN now = Fields
  BY SimulationFields
<1>3. put = [f \in Fields |-> IF new[f] # read[f] THEN new[f] ELSE now[f]]
  BY <1>2 DEF MergePatch
<1> HIDE DEF new, put
<1>4. /\ put = [f \in Fields |-> put[f]]
      /\ put.detectors = IF list # read.detectors THEN list ELSE now.detectors
      /\ put.ref = now.ref /\ put.boosters = now.boosters /\ put.generation = now.generation
      /\ put.phase = now.phase /\ put.message = now.message
      /\ put.applied = now.applied /\ put.observed = now.observed
  BY <1>1, <1>3 DEF Fields
<1>5. \E e \in SUBSET NetID : put.detectors \in [e -> Nat]
  BY <1>4, SimulationFields
<1>6. put \in Simulations
  BY <1>4, <1>5, SimulationFields, FieldsMakeSimulation
<1> QED
  BY <1>1, <1>4, <1>6 DEF new, put

LEMMA CreatedSimulation ==
  ASSUME NEW v \in Device, NEW d \in SUBSET NetID, NEW list \in [d -> Nat]
  PROVE  LET new == NewSimulation(v, list, <<>>)
         IN  new \in Simulations /\ new.detectors = list
<1> DEFINE new == NewSimulation(v, list, <<>>)
<1>1. /\ new = [f \in Fields |-> new[f]]
      /\ new.ref = v /\ new.detectors = list /\ new.boosters = <<>> /\ new.generation = 1
      /\ new.phase = NoPhase /\ new.message = NoReason /\ new.applied = 0 /\ new.observed = 0
  BY DEF NewSimulation, Fields
<1>2. <<>> \in [{} -> Nat]
  OBVIOUS
<1>3. NoReason \in Reason
  BY DEF Reason
<1>4. new \in Simulations
  <2> HIDE DEF new
  <2>1. /\ new.ref \in Device \cup {Absent} /\ new.generation \in Nat
        /\ new.phase \in {NoPhase, Applied, Failed} /\ new.message \in Reason
        /\ new.applied \in Nat /\ new.observed \in Nat
    BY <1>1, <1>3
  <2>2. new.detectors \in [d -> Nat] /\ {} \in SUBSET NetID /\ new.boosters \in [{} -> Nat]
    BY <1>1, <1>2
  <2> QED
    BY <1>1, <2>1, <2>2, FieldsMakeSimulation
<1> QED
  BY <1>1, <1>4

LEMMA MergedList ==
  ASSUME NEW d \in SUBSET NetID, NEW existing \in [d -> Nat],
         NEW e \in SUBSET NetID, NEW incoming \in [e -> Nat]
  PROVE  mergeCANDetectors(existing, incoming) \in [d \cup e -> Nat]
BY DEF mergeCANDetectors

LEMMA ListFromBody ==
  ASSUME NEW body \in Bodies, DOMAIN body \subseteq NetID
  PROVE  detectorsFromAPI(body) \in [DOMAIN body -> Nat]
<1>1. PICK d \in SUBSET (NetID \cup {0}) : body \in [d -> Nat]
  BY DEF Bodies
<1> QED
  BY <1>1 DEF detectorsFromAPI, Default

-----------------------------------------------------------------------------
(* The store, its watch and the controller's copies.                       *)
StoreTyped ==
  /\ simulation \in [SimName -> MaybeSimulation]
  /\ device \in [Device -> Backend]
  /\ watch \in [simulation : Seq(Event(SimName, MaybeSimulation)), device : Seq(Event(Device, Backend))]

CachedTyped == cached \in [simulation : [SimName -> MaybeSimulation], device : [Device -> Backend]]

(* The latest undelivered event of a simulation says what it is; without   *)
(* one the copy does.                                                      *)
Synced ==
  \A n \in SimName :
    IF Undelivered(n)
    THEN \E i \in DOMAIN watch.simulation :
           /\ watch.simulation[i] = [name |-> n, obj |-> simulation[n]]
           /\ \A j \in DOMAIN watch.simulation : j > i => watch.simulation[j].name # n
    ELSE cached.simulation[n] = simulation[n]

LEMMA PublishedLast ==
  ASSUME StoreTyped, NEW n \in SimName, NEW new \in MaybeSimulation,
         simulation' = [simulation EXCEPT ![n] = new], Publish("simulation", n, new)
  PROVE  /\ watch' \in [simulation : Seq(Event(SimName, MaybeSimulation)), device : Seq(Event(Device, Backend))]
         /\ Synced /\ cached' = cached => Synced'
<1> DEFINE ws == watch.simulation
           e == [name |-> n, obj |-> new]
<1>1. ws \in Seq(Event(SimName, MaybeSimulation)) /\ e \in Event(SimName, MaybeSimulation)
  BY DEF StoreTyped, Event
<1>2. watch'.simulation = Append(ws, e) /\ watch'.device = watch.device
      /\ watch' \in [simulation : Seq(Event(SimName, MaybeSimulation)), device : Seq(Event(Device, Backend))]
  <2>1. watch' = [watch EXCEPT !["simulation"] = Append(ws, e)]
    BY DEF Publish
  <2>2. Append(ws, e) \in Seq(Event(SimName, MaybeSimulation))
    BY <1>1
  <2> QED
    BY <2>1, <2>2 DEF StoreTyped
<1>3. /\ DOMAIN watch'.simulation = 1 .. Len(ws) + 1 /\ DOMAIN ws = 1 .. Len(ws) /\ Len(ws) \in Nat
      /\ \A i \in 1 .. Len(ws) : watch'.simulation[i] = ws[i]
      /\ watch'.simulation[Len(ws) + 1] = e
  BY <1>1, <1>2
<1>4. ASSUME Synced, cached' = cached, NEW m \in SimName
      PROVE  IF Undelivered(m)'
             THEN \E i \in DOMAIN watch'.simulation :
                    /\ watch'.simulation[i] = [name |-> m, obj |-> simulation'[m]]
                    /\ \A j \in DOMAIN watch'.simulation : j > i => watch'.simulation[j].name # m
             ELSE cached'.simulation[m] = simulation'[m]
  <2>1. CASE m = n
    <3>1. simulation'[m] = new
      BY <2>1 DEF StoreTyped
    <3>2. Undelivered(m)'
      BY <1>3, <2>1 DEF Undelivered
    <3>3. watch'.simulation[Len(ws) + 1] = [name |-> m, obj |-> simulation'[m]]
      BY <1>3, <2>1, <3>1
    <3> QED
      BY <1>3, <3>2, <3>3
  <2>2. CASE m # n
    <3>1. simulation'[m] = simulation[m] /\ e.name # m
      BY <2>2 DEF StoreTyped
    <3>2. Undelivered(m)' <=> Undelivered(m)
      BY <1>3, <3>1, SMTT(30) DEF Undelivered
    <3>3. CASE Undelivered(m)
      <4>1. PICK i \in DOMAIN ws :
              /\ ws[i] = [name |-> m, obj |-> simulation[m]]
              /\ \A j \in DOMAIN ws : j > i => ws[j].name # m
        BY <1>4, <3>3 DEF Synced
      <4>2. i \in DOMAIN watch'.simulation
            /\ watch'.simulation[i] = [name |-> m, obj |-> simulation'[m]]
        BY <1>3, <3>1, <4>1
      <4>3. \A j \in DOMAIN watch'.simulation : j > i => watch'.simulation[j].name # m
        BY <1>3, <3>1, <4>1
      <4> QED
        BY <3>2, <3>3, <4>2, <4>3
    <3>4. CASE ~Undelivered(m)
      BY <1>4, <3>1, <3>2, <3>4 DEF Synced
    <3> QED
      BY <3>3, <3>4
  <2> QED
    BY <2>1, <2>2
<1> QED
  BY <1>2, <1>4 DEF Synced

(* A write stores the object, in a generation of its own if the spec is    *)
(* another, and tells the watch.                                           *)
LEMMA PutSound ==
  ASSUME StoreTyped, NEW n \in SimName, NEW obj \in MaybeSimulation, PutSimulation(n, obj)
  PROVE  /\ StoreTyped'
         /\ \E new \in MaybeSimulation :
              /\ simulation' = [simulation EXCEPT ![n] = new]
              /\ new = Absent <=> obj = Absent
              /\ obj # Absent => new.detectors = obj.detectors
         /\ Synced /\ cached' = cached => Synced'
<1> DEFINE old == simulation[n]
           new == IF Absent \in {old, obj} \/ SpecOf(old) = SpecOf(obj) THEN obj
                  ELSE [obj EXCEPT !.generation = @ + 1]
<1>1. /\ new \in MaybeSimulation
      /\ new = Absent <=> obj = Absent
      /\ obj # Absent => new.detectors = obj.detectors
  BY NextGeneration, SimulationsAreObjects DEF MaybeSimulation
<1>2. /\ simulation' = [simulation EXCEPT ![n] = new]
      /\ IF new = old THEN UNCHANGED watch ELSE Publish("simulation", n, new)
      /\ device' = device
  BY DEF PutSimulation
<1> HIDE DEF new
<1>3. simulation' \in [SimName -> MaybeSimulation]
  BY <1>1, <1>2 DEF StoreTyped
<1>4. CASE new = old
  <2>1. simulation' = simulation /\ watch' = watch
    BY <1>2, <1>4 DEF StoreTyped
  <2> QED
    BY <1>1, <1>2, <2>1, SMTT(30) DEF StoreTyped, Synced, Undelivered
<1>5. CASE new # old
  BY <1>1, <1>2, <1>3, <1>5, PublishedLast DEF StoreTyped
<1> QED
  BY <1>4, <1>5

LEMMA DeliverSound ==
  ASSUME StoreTyped, CachedTyped, Synced, NEW kind \in {"simulation", "device"}, Deliver(kind)
  PROVE  StoreTyped' /\ CachedTyped' /\ Synced'
<1> DEFINE ws == watch.simulation
           e == Head(watch[kind])
<1>1. watch[kind] # <<>> /\ watch' = [watch EXCEPT ![kind] = Tail(@)]
      /\ cached' = [cached EXCEPT ![kind][e.name] = e.obj]
      /\ UNCHANGED <<simulation, device>>
  BY DEF Deliver
<1>2. CASE kind = "device"
  <2>1. watch.device \in Seq(Event(Device, Backend)) /\ watch.device # <<>>
    BY <1>1, <1>2 DEF StoreTyped
  <2>2. e \in Event(Device, Backend) /\ Tail(watch.device) \in Seq(Event(Device, Backend))
    BY <1>2, <2>1
  <2>3. e.name \in Device /\ e.obj \in Backend
    BY <2>2 DEF Event
  <2>4. StoreTyped' /\ watch'.simulation = watch.simulation
    BY <1>1, <1>2, <2>2 DEF StoreTyped
  <2> HIDE DEF e
  <2>5. CachedTyped' /\ cached'.simulation = cached.simulation
    BY <1>1, <1>2, <2>3 DEF CachedTyped
  <2>6. simulation' = simulation
    BY <1>1
  <2>7. Synced'
    BY <2>4, <2>5, <2>6 DEF Synced, Undelivered
  <2> QED
    BY <2>4, <2>5, <2>7
<1>3. CASE kind = "simulation"
  <2>1. ws \in Seq(Event(SimName, MaybeSimulation)) /\ ws # <<>>
    BY <1>1, <1>3 DEF StoreTyped
  <2>2. e \in Event(SimName, MaybeSimulation) /\ Tail(ws) \in Seq(Event(SimName, MaybeSimulation))
        /\ e = ws[1]
    BY <1>3, <2>1
  <2>3. e.name \in SimName /\ e.obj \in MaybeSimulation
    BY <2>2 DEF Event
  <2>4. StoreTyped' /\ watch'.simulation = Tail(ws)
    BY <1>1, <1>3, <2>2 DEF StoreTyped
  <2>5. /\ Len(ws) \in Nat /\ DOMAIN ws = 1 .. Len(ws) /\ DOMAIN watch'.simulation = 1 .. Len(ws) - 1
        /\ \A i \in 1 .. Len(ws) - 1 : watch'.simulation[i] = ws[i + 1]
        /\ 1 \in DOMAIN ws
    BY <2>1, <2>4
  <2> HIDE DEF e
  <2>6. CachedTyped' /\ cached'.simulation = [cached.simulation EXCEPT ![e.name] = e.obj]
    BY <1>1, <1>3, <2>3 DEF CachedTyped
  <2>8. simulation' = simulation
    BY <1>1
  <2>9. \A n \in SimName :
          cached'.simulation[n] = IF n = e.name THEN e.obj ELSE cached.simulation[n]
    BY <2>3, <2>6 DEF CachedTyped
  <2>7. ASSUME NEW n \in SimName
        PROVE  IF Undelivered(n)'
               THEN \E i \in DOMAIN watch'.simulation :
                      /\ watch'.simulation[i] = [name |-> n, obj |-> simulation'[n]]
                      /\ \A j \in DOMAIN watch'.simulation : j > i => watch'.simulation[j].name # n
               ELSE cached'.simulation[n] = simulation'[n]
    <3>1. CASE ~Undelivered(n)
      <4>1. \A i \in DOMAIN ws : ws[i].name # n
        BY <3>1 DEF Undelivered
      <4>2. e.name # n
        BY <2>2, <2>5, <4>1
      <4>3. \A i \in DOMAIN watch'.simulation : watch'.simulation[i].name # n
        <5> TAKE i \in DOMAIN watch'.simulation
        <5>1. i \in 1 .. Len(ws) - 1 /\ i + 1 \in DOMAIN ws
          BY <2>5
        <5> QED
          BY <2>5, <4>1, <5>1
      <4>4. ~Undelivered(n)'
        BY <4>3 DEF Undelivered
      <4> QED
        BY <2>8, <2>9, <3>1, <4>2, <4>4 DEF Synced
    <3>2. CASE Undelivered(n)
      <4>1. PICK i \in DOMAIN ws :
              /\ ws[i] = [name |-> n, obj |-> simulation[n]]
              /\ \A j \in DOMAIN ws : j > i => ws[j].name # n
        BY <3>2 DEF Synced
      <4>2. CASE i = 1
        <5>1. e.name = n /\ e.obj = simulation[n]
          BY <2>2, <4>1, <4>2
        <5>2. ~Undelivered(n)'
          BY <2>5, <4>1, <4>2, SMTT(30) DEF Undelivered
        <5> QED
          BY <2>8, <2>9, <5>1, <5>2
      <4>3. CASE i # 1
        <5>1. i - 1 \in DOMAIN watch'.simulation /\ watch'.simulation[i - 1] = ws[i]
          BY <2>5, <4>1, <4>3
        <5>2. \A j \in DOMAIN watch'.simulation : j > i - 1 => watch'.simulation[j].name # n
          <6> TAKE j \in DOMAIN watch'.simulation
          <6>1. j \in 1 .. Len(ws) - 1 /\ j + 1 \in DOMAIN ws
            BY <2>5
          <6>2. watch'.simulation[j] = ws[j + 1]
            BY <2>5, <6>1
          <6>3. j > i - 1 => j + 1 > i
            BY <2>5, <6>1
          <6> QED
            BY <4>1, <6>1, <6>2, <6>3
        <5>3. Undelivered(n)'
          BY <4>1, <5>1 DEF Undelivered
        <5> QED
          BY <2>8, <4>1, <5>1, <5>2, <5>3
      <4> QED
        BY <4>2, <4>3
    <3> QED
      BY <3>1, <3>2
  <2> QED
    BY <2>4, <2>6, <2>7 DEF Synced
<1> QED
  BY <1>2, <1>3

-----------------------------------------------------------------------------
(* Requests and the running reconcile.                                     *)
RequestTyped ==
  /\ request \in [Request -> RequestState]
  /\ \A r \in Request :
       /\ request[r].stage # "new" => request[r].sim \in SimName /\ request[r].ref \in Device
       /\ request[r].stage \in {"simulation", "write", "ok"} => DOMAIN request[r].body \subseteq NetID

RunTyped ==
  /\ DOMAIN run = DOMAIN NoRun
  /\ run.count \in Nat /\ run.phase \in {NoPhase, Applied, Failed} /\ run.message \in Reason
  /\ run.latest \in BOOLEAN
  /\ run.stage # "idle" => run.name \in SimName /\ run.obj \in Simulations

(* A reconcile whose copy nobody has written over holds the object itself. *)
RunCurrent == run.stage # "idle" /\ run.latest => run.obj = simulation[run.name]

BodiesTyped == "bodies" \in DOMAIN left /\ \A body \in left.bodies : IsBody(body)

Typed == StoreTyped /\ CachedTyped /\ RequestTyped /\ RunTyped /\ BodiesTyped

Lists(n, netIDs) == simulation[n] # Absent /\ netIDs \subseteq DOMAIN simulation[n].detectors

(* What a request has read of a list, and what it was answered for, is     *)
(* still listed.                                                           *)
KeptOf(r) ==
  /\ request[r].stage = "write" /\ request[r].read # Absent =>
       Lists(request[r].sim, DOMAIN request[r].read.detectors)
  /\ request[r].stage = "ok" => Lists(request[r].sim, DOMAIN request[r].body)

Kept == overruled \in BOOLEAN /\ (~overruled => \A r \in Request : KeptOf(r))

KeptInv == Typed /\ Synced /\ RunCurrent /\ Kept

(* No list loses a detector.                                               *)
Grows ==
  \A n \in SimName : simulation[n] # Absent =>
    simulation'[n] # Absent /\ DOMAIN simulation[n].detectors \subseteq DOMAIN simulation'[n].detectors

LEMMA GrowthKeeps ==
  ASSUME RequestTyped, Grows, NEW r \in Request, KeptOf(r), request'[r] = request[r]
  PROVE  KeptOf(r)'
BY DEF RequestTyped, Grows, KeptOf, Lists

LEMMA BoundsKeepBodies ==
  ASSUME BodiesTyped,
         \/ UNCHANGED left
         \/ \E what \in {"requests", "calls", "packets", "edits", "faults"} : Spend(what)
  PROVE  BodiesTyped'
BY DEF BodiesTyped, Spend

LEMMA OutdatesSound ==
  ASSUME RunTyped, RunCurrent, Outdates
  PROVE  RunTyped' /\ RunCurrent'
<1>1. CASE run' = run /\ (run = NoRun \/ simulation'[run.name] = simulation[run.name])
  BY <1>1 DEF RunTyped, RunCurrent, NoRun
<1>2. CASE run' = [run EXCEPT !.latest = FALSE]
  BY <1>2 DEF RunTyped, RunCurrent, NoRun
<1> QED
  BY <1>1, <1>2 DEF Outdates

(* Steps that concern neither objects nor requests nor the reconcile.      *)
LEMMA FrameKeeps ==
  ASSUME KeptInv, UNCHANGED <<storeVars, requestVars, cached, run>>, BodiesTyped'
  PROVE  KeptInv'
BY DEF KeptInv, Typed, StoreTyped, CachedTyped, RequestTyped, RunTyped, RunCurrent, Synced,
       Undelivered, Kept, KeptOf, Lists, storeVars, requestVars

LEMMA DevicePut ==
  ASSUME StoreTyped, NEW v \in Device, NEW b \in Backend, PutDevice(v, b)
  PROVE  StoreTyped' /\ simulation' = simulation /\ watch'.simulation = watch.simulation
<1> DEFINE ws == watch.device
           e == [name |-> v, obj |-> b]
<1>1. /\ device' = [device EXCEPT ![v] = b] /\ simulation' = simulation
      /\ watch' = [watch EXCEPT !["device"] = Append(ws, e)]
  BY DEF PutDevice, Publish
<1>2. Append(ws, e) \in Seq(Event(Device, Backend))
  BY DEF StoreTyped, Event
<1> HIDE DEF ws, e
<1> QED
  BY <1>1, <1>2 DEF StoreTyped

-----------------------------------------------------------------------------
(* The steps of users and of requests.                                     *)
LEMMA UserStep ==
  ASSUME KeptInv, UserEdits
  PROVE  KeptInv'
<1> USE DEF KeptInv, Typed
<1>1. /\ BodiesTyped' /\ Outdates
      /\ UNCHANGED <<request, cached>>
      /\ (\E n \in SimName : CreateSimulation(n) \/ DeleteSimulation(n)) \/ EditDevice
  BY BoundsKeepBodies DEF UserEdits
<1>2. RunTyped' /\ RunCurrent'
  BY <1>1, OutdatesSound
<1>3. CachedTyped' /\ RequestTyped'
  BY <1>1 DEF CachedTyped, RequestTyped
<1>4. ASSUME NEW n \in SimName, CreateSimulation(n)
      PROVE  KeptInv'
  <2>1. PICK m \in Manifests : PutSimulation(n, NewSimulation(m.ref, m.detectors, m.boosters))
    BY <1>4 DEF CreateSimulation
  <2>2. NewSimulation(m.ref, m.detectors, m.boosters) \in MaybeSimulation
    BY ManifestsAssumption, SimulationsAreObjects DEF MaybeSimulation
  <2>3. /\ StoreTyped' /\ Synced'
        /\ \E new \in MaybeSimulation : simulation' = [simulation EXCEPT ![n] = new]
    BY <1>1, <2>1, <2>2, PutSound
  <2>4. simulation[n] = Absent /\ overruled' = overruled
    BY <1>4 DEF CreateSimulation
  <2>5. Grows
    BY <2>3, <2>4 DEF Grows, StoreTyped
  <2>6. Kept'
    BY <1>1, <2>4, <2>5, GrowthKeeps DEF Kept
  <2> QED
    BY <1>1, <1>2, <1>3, <2>3, <2>6
<1>5. ASSUME NEW n \in SimName, DeleteSimulation(n)
      PROVE  KeptInv'
  <2>1. StoreTyped' /\ Synced'
    BY <1>1, <1>5, PutSound DEF DeleteSimulation, MaybeSimulation
  <2>2. Kept'
    BY <1>5 DEF DeleteSimulation, Kept
  <2> QED
    BY <1>1, <1>2, <1>3, <2>1, <2>2
<1>6. CASE EditDevice
  <2>1. StoreTyped' /\ simulation' = simulation /\ watch'.simulation = watch.simulation
        /\ overruled' = overruled
    BY <1>6, DevicePut, StoreAssumption DEF EditDevice, Backend
  <2>2. Synced' /\ Kept'
    BY <1>1, <2>1 DEF Synced, Undelivered, Kept, KeptOf, Lists
  <2> QED
    BY <1>1, <1>2, <1>3, <2>1, <2>2
<1> QED
  BY <1>1, <1>4, <1>5, <1>6

LEMMA AskStep ==
  ASSUME KeptInv, NEW r \in Request, Asks(r)
  PROVE  KeptInv'
<1> USE DEF KeptInv, Typed
<1>1. PICK n \in SimName, v \in Device, body \in left.bodies : Submit(r, n, v, body)
  BY DEF Asks
<1>2. /\ BodiesTyped' /\ UNCHANGED <<controllerVars, storeVars, overruled>>
  BY <1>1, BoundsKeepBodies DEF Asks, Submit
<1> DEFINE new == [NewRequest EXCEPT !.stage = "device", !.sim = n, !.ref = v, !.body = body]
<1>3. body \in Bodies
  BY DEF BodiesTyped, IsBody, Bodies
<1>4. /\ new \in RequestState /\ new.stage = "device" /\ new.sim = n /\ new.ref = v
      /\ request' = [request EXCEPT ![r] = new]
  BY <1>1, <1>3 DEF Submit, NewRequest, RequestState, MaybeSimulation
<1> HIDE DEF new
<1>5. RequestTyped'
  BY <1>4 DEF RequestTyped
<1>6. Kept'
  BY <1>2, <1>4 DEF Kept, KeptOf, Lists, storeVars, RequestTyped
<1>7. StoreTyped' /\ CachedTyped' /\ RunTyped' /\ RunCurrent' /\ Synced'
  BY <1>2 DEF controllerVars, storeVars, StoreTyped, CachedTyped, RunTyped, RunCurrent, Synced,
              Undelivered
<1> QED
  BY <1>2, <1>5, <1>6, <1>7

LEMMA ApiStep ==
  ASSUME KeptInv, NEW r \in Request, Api(r)
  PROVE  KeptInv'
<1> USE DEF KeptInv, Typed
<1> DEFINE q == request[r]
<1>1. /\ simulateCAN(r) /\ Outdates /\ cached' = cached /\ left' = left
  BY DEF Api
<1>2. BodiesTyped' /\ RunTyped' /\ RunCurrent' /\ CachedTyped'
  BY <1>1, OutdatesSound DEF BodiesTyped, CachedTyped
<1>3. q \in RequestState
  BY DEF RequestTyped
<1>4. ASSUME NEW stage \in {"simulation", "ok", "refused"},
             q.stage # "new", Becomes(r, stage), stage # "refused" => DOMAIN q.body \subseteq NetID
      PROVE  /\ RequestTyped' /\ request'[r] = [q EXCEPT !.stage = stage]
             /\ \A s \in Request \ {r} : request'[s] = request[s]
  <2>1. request' = [request EXCEPT ![r] = [q EXCEPT !.stage = stage]]
    BY <1>4 DEF Becomes
  <2>2. [q EXCEPT !.stage = stage] \in RequestState
    BY <1>3 DEF RequestState
  <2> QED
    BY <1>3, <1>4, <2>1, <2>2 DEF RequestTyped, RequestState
<1>5. CASE getDevice(r)
  <2>1. /\ q.stage = "device" /\ UNCHANGED <<storeVars, overruled>>
        /\ \/ Becomes(r, "simulation") /\ 0 \notin DOMAIN q.body
           \/ Becomes(r, "refused")
    BY <1>5 DEF getDevice
  <2>2. DOMAIN q.body \subseteq NetID \cup {0}
    BY <1>3 DEF RequestState, Bodies
  <2>3. /\ RequestTyped' /\ request'[r].stage \in {"simulation", "refused"}
        /\ \A s \in Request \ {r} : request'[s] = request[s]
    BY <1>3, <1>4, <2>1, <2>2 DEF RequestState
  <2>4. StoreTyped' /\ Synced'
    BY <1>1, <2>1 DEF storeVars, StoreTyped, Synced, Undelivered
  <2>5. Kept'
    BY <2>1, <2>3 DEF Kept, KeptOf, Lists, storeVars
  <2> QED
    BY <1>2, <2>3, <2>4, <2>5
<1>6. CASE getSimulation(r)
  <2>1. /\ q.stage = "simulation" /\ UNCHANGED <<storeVars, overruled>>
        /\ \/ Becomes(r, "refused")
           \/ request' = [request EXCEPT ![r].stage = "write", ![r].read = simulation[q.sim]]
    BY <1>6 DEF getSimulation
  <2>2. StoreTyped' /\ Synced'
    BY <1>1, <2>1 DEF storeVars, StoreTyped, Synced, Undelivered
  <2>3. CASE Becomes(r, "refused")
    <3>1. /\ RequestTyped' /\ request'[r].stage = "refused"
          /\ \A s \in Request \ {r} : request'[s] = request[s]
      BY <1>3, <1>4, <2>1, <2>3 DEF RequestState
    <3>2. Kept'
      BY <2>1, <3>1 DEF Kept, KeptOf, Lists, storeVars
    <3> QED
      BY <1>2, <2>2, <3>1, <3>2
  <2>4. CASE request' = [request EXCEPT ![r].stage = "write", ![r].read = simulation[q.sim]]
    <3> DEFINE new == [q EXCEPT !.stage = "write", !.read = simulation[q.sim]]
    <3>1. q.sim \in SimName /\ simulation[q.sim] \in MaybeSimulation /\ DOMAIN q.body \subseteq NetID
          /\ q.ref \in Device
      BY <2>1 DEF RequestTyped, StoreTyped
    <3>2. /\ new \in RequestState /\ new.stage = "write" /\ new.sim = q.sim /\ new.ref = q.ref
          /\ new.body = q.body /\ new.read = simulation[q.sim]
      BY <1>3, <3>1 DEF RequestState
    <3>3. request' = [request EXCEPT ![r] = new]
      BY <2>4
    <3> HIDE DEF new
    <3>4. RequestTyped'
      BY <3>1, <3>2, <3>3 DEF RequestTyped
    <3>5. Kept'
      BY <2>1, <3>1, <3>2, <3>3 DEF Kept, KeptOf, Lists, storeVars, RequestTyped
    <3> QED
      BY <1>2, <2>2, <3>4, <3>5
  <2> QED
    BY <2>1, <2>3, <2>4
<1>7. CASE createSimulation(r)
  <2>1. q.stage = "write" /\ q.read = Absent /\ overruled' = overruled
        /\ q.sim \in SimName /\ q.ref \in Device /\ q.body \in Bodies /\ DOMAIN q.body \subseteq NetID
    BY <1>3, <1>7 DEF createSimulation, RequestTyped, RequestState
  <2>2. CASE simulation[q.sim] = Absent
    <3> DEFINE obj == NewSimulation(q.ref, detectorsFromAPI(q.body), <<>>)
    <3>1. PutSimulation(q.sim, obj) /\ Becomes(r, "ok")
      BY <1>7, <2>2 DEF createSimulation
    <3>2. obj \in Simulations /\ DOMAIN obj.detectors = DOMAIN q.body
      BY <2>1, CreatedSimulation, ListFromBody, ZenonT(60)
    <3> HIDE DEF obj
    <3>3. StoreTyped' /\ Synced'
      BY <1>1, <2>1, <3>1, <3>2, PutSound DEF MaybeSimulation
    <3>4. PICK new \in MaybeSimulation :
            /\ simulation' = [simulation EXCEPT ![q.sim] = new]
            /\ new # Absent /\ new.detectors = obj.detectors
      BY <2>1, <3>1, <3>2, PutSound, SimulationsAreObjects DEF MaybeSimulation
    <3>5. /\ RequestTyped' /\ request'[r] = [q EXCEPT !.stage = "ok"]
          /\ \A s \in Request \ {r} : request'[s] = request[s]
      BY <1>4, <2>1, <3>1
    <3>6. Grows
      BY <2>1, <2>2, <3>4 DEF Grows, StoreTyped
    <3>7. KeptOf(r)'
      BY <1>3, <2>1, <3>2, <3>4, <3>5 DEF KeptOf, Lists, StoreTyped, RequestState
    <3>8. Kept'
      BY <2>1, <3>5, <3>6, <3>7, GrowthKeeps DEF Kept
    <3> QED
      BY <1>2, <3>3, <3>5, <3>8
  <2>3. CASE simulation[q.sim] # Absent
    <3>1. Becomes(r, "refused") /\ UNCHANGED storeVars
      BY <1>7, <2>3 DEF createSimulation
    <3>2. /\ RequestTyped' /\ request'[r].stage = "refused"
          /\ \A s \in Request \ {r} : request'[s] = request[s]
      BY <1>3, <1>4, <2>1, <3>1 DEF RequestState
    <3>3. StoreTyped' /\ Synced'
      BY <1>1, <3>1 DEF storeVars, StoreTyped, Synced, Undelivered
    <3>4. Kept'
      BY <2>1, <3>1, <3>2 DEF Kept, KeptOf, Lists, storeVars
    <3> QED
      BY <1>2, <3>2, <3>3, <3>4
  <2> QED
    BY <2>2, <2>3
<1>8. CASE patchSimulation(r)
  <2> DEFINE now == simulation[q.sim]
             list == mergeCANDetectors(q.read.detectors, detectorsFromAPI(q.body))
             new == [q.read EXCEPT !.detectors = list]
  <2>1. q.stage = "write" /\ q.sim \in SimName /\ q.read \in Simulations
        /\ q.body \in Bodies /\ DOMAIN q.body \subseteq NetID
        /\ now \in MaybeSimulation
    BY <1>3, <1>8 DEF patchSimulation, RequestTyped, RequestState, MaybeSimulation, StoreTyped
  <2>2. CASE now = Absent
    <3>1. Becomes(r, "refused") /\ UNCHANGED <<storeVars, overruled>>
      BY <1>8, <2>2 DEF patchSimulation
    <3>2. /\ RequestTyped' /\ request'[r].stage = "refused"
          /\ \A s \in Request \ {r} : request'[s] = request[s]
      BY <1>3, <1>4, <2>1, <3>1 DEF RequestState
    <3>3. StoreTyped' /\ Synced'
      BY <1>1, <3>1 DEF storeVars, StoreTyped, Synced, Undelivered
    <3>4. Kept'
      BY <3>1, <3>2 DEF Kept, KeptOf, Lists, storeVars
    <3> QED
      BY <1>2, <3>2, <3>3, <3>4
  <2>3. CASE now # Absent
    <3> DEFINE obj == MergePatch(now, q.read, new)
    <3>1. /\ PutSimulation(q.sim, obj) /\ Becomes(r, "ok")
          /\ overruled' = \/ overruled
                          \/ new.detectors # q.read.detectors /\ now.detectors # q.read.detectors
      BY <1>8, <2>3 DEF patchSimulation
    <3>2. list \in [DOMAIN q.read.detectors \cup DOMAIN q.body -> Nat]
      BY <2>1, SimulationFields, ListFromBody, MergedList
    <3>3. DOMAIN q.read.detectors \cup DOMAIN q.body \in SUBSET NetID
      BY <2>1, SimulationFields
    <3>4. now \in Simulations
      BY <2>1, <2>3 DEF MaybeSimulation
    <3> HIDE DEF list
    <3>5. /\ obj \in Simulations /\ new.detectors = list
          /\ obj.detectors = IF list # q.read.detectors THEN list ELSE now.detectors
      BY <2>1, <3>2, <3>3, <3>4, PatchOfSimulation, SMTT(30)
    <3> HIDE DEF obj, new
    <3>6. StoreTyped' /\ Synced'
      BY <1>1, <2>1, <3>1, <3>5, PutSound DEF MaybeSimulation
    <3>7. PICK put \in MaybeSimulation :
            /\ simulation' = [simulation EXCEPT ![q.sim] = put]
            /\ put # Absent /\ put.detectors = obj.detectors
      BY <2>1, <3>1, <3>5, PutSound, SimulationsAreObjects DEF MaybeSimulation
    <3>8. /\ RequestTyped' /\ request'[r] = [q EXCEPT !.stage = "ok"]
          /\ \A s \in Request \ {r} : request'[s] = request[s]
      BY <1>4, <2>1, <3>1
    <3>9. CASE overruled'
      <4>1. Kept'
        BY <3>1, <3>9 DEF Kept
      <4> QED
        BY <1>2, <3>6, <3>8, <4>1
    <3>10. CASE ~overruled'
      <4>1. ~overruled /\ (list = q.read.detectors \/ now.detectors = q.read.detectors)
        BY <3>1, <3>5, <3>10
      <4>2. DOMAIN q.read.detectors \subseteq DOMAIN now.detectors
        BY <2>1, <4>1, SimulationsAreObjects DEF Kept, KeptOf, Lists
      <4>3. /\ DOMAIN now.detectors \subseteq DOMAIN put.detectors
            /\ DOMAIN q.body \subseteq DOMAIN put.detectors
        BY <3>2, <3>5, <3>7, <4>1, <4>2
      <4>4. Grows
        BY <2>1, <3>7, <4>3 DEF Grows, StoreTyped
      <4>5. KeptOf(r)'
        BY <1>3, <2>1, <3>7, <3>8, <4>3 DEF KeptOf, Lists, StoreTyped, RequestState
      <4>6. overruled' \in BOOLEAN
        BY <3>1
      <4>7. Kept'
        BY <3>8, <4>1, <4>4, <4>5, <4>6, GrowthKeeps DEF Kept
      <4> QED
        BY <1>2, <3>6, <3>8, <4>7
    <3> QED
      BY <3>9, <3>10
  <2> QED
    BY <2>2, <2>3
<1> QED
  BY <1>1, <1>5, <1>6, <1>7, <1>8 DEF simulateCAN

-----------------------------------------------------------------------------
(* The steps of the controller and of its simulator.                       *)
LEMMA InformerStep ==
  ASSUME KeptInv, NEW kind \in {"simulation", "device"}, Informer(kind)
  PROVE  KeptInv'
<1> USE DEF KeptInv, Typed
<1>1. /\ Deliver(kind) /\ UNCHANGED <<request, overruled, left, simulation, run>>
  BY DEF Informer, Deliver, requestVars
<1>2. StoreTyped' /\ CachedTyped' /\ Synced'
  BY <1>1, DeliverSound
<1>3. BodiesTyped' /\ RequestTyped' /\ RunTyped' /\ RunCurrent' /\ Kept'
  BY <1>1 DEF BodiesTyped, RequestTyped, RunTyped, RunCurrent, Kept, KeptOf, Lists
<1> QED
  BY <1>2, <1>3

(* Steps that change, of all this, the running reconcile only.             *)
LEMMA RunKeeps ==
  ASSUME KeptInv, UNCHANGED <<storeVars, requestVars, cached>>, BodiesTyped', RunTyped', RunCurrent'
  PROVE  KeptInv'
BY DEF KeptInv, Typed, StoreTyped, CachedTyped, RequestTyped, Synced, Undelivered, Kept, KeptOf,
       Lists, storeVars, requestVars

LEMMA IdleRun ==
  ASSUME run' = NoRun
  PROVE  RunTyped' /\ RunCurrent'
BY DEF RunTyped, RunCurrent, NoRun, Reason

(* A reconcile that goes on keeps its copy.                                *)
LEMMA RunGoesOn ==
  ASSUME RunTyped, RunCurrent, run.stage # "idle", simulation' = simulation,
         DOMAIN run' = DOMAIN run,
         run'.name = run.name, run'.obj = run.obj, run'.latest = run.latest,
         run'.count \in Nat, run'.phase \in {NoPhase, Applied, Failed}, run'.message \in Reason
  PROVE  RunTyped' /\ RunCurrent'
BY DEF RunTyped, RunCurrent

LEMMA FailingRun ==
  ASSUME RunTyped, RunCurrent, run.stage # "idle", simulation' = simulation,
         run' \in {CallFailed(run), [CallFailed(run) EXCEPT !.clean = FALSE]}
  PROVE  RunTyped' /\ RunCurrent'
<1>1. /\ DOMAIN run' = DOMAIN run
      /\ run'.name = run.name /\ run'.obj = run.obj /\ run'.latest = run.latest
      /\ run'.count = run.count /\ run'.phase = Failed /\ run'.message = "register"
  BY DEF CallFailed, Ending, RunTyped, NoRun
<1> QED
  BY <1>1, RunGoesOn DEF RunTyped, Reason

LEMMA ReconcileStarts ==
  ASSUME KeptInv, NEW n \in SimName, StartReconcile(n)
  PROVE  KeptInv'
<1> USE DEF KeptInv, Typed
<1> DEFINE obj == cached.simulation[n]
           new == [NoRun EXCEPT !.name = n, !.obj = obj, !.latest = ~Undelivered(n)]
<1>1. /\ UNCHANGED <<storeVars, requestVars, cached, left>>
      /\ \/ run' = NoRun
         \/ /\ obj # Absent
            /\ \/ \E message \in {"deviceRef", "not found", "backend"} :
                    run' = Ending(new, Failed, message)
               \/ run' = [new EXCEPT !.stage = "call", !.todo = CANDevices(obj)]
  BY DEF StartReconcile, Reconcile
<1>2. BodiesTyped'
  BY <1>1 DEF BodiesTyped
<1>3. CASE run' = NoRun
  BY <1>1, <1>2, <1>3, IdleRun, RunKeeps
<1>4. ASSUME obj # Absent,
             \/ \E message \in {"deviceRef", "not found", "backend"} :
                  run' = Ending(new, Failed, message)
             \/ run' = [new EXCEPT !.stage = "call", !.todo = CANDevices(obj)]
      PROVE  KeptInv'
  <2>1. /\ DOMAIN run' = DOMAIN NoRun
        /\ run'.name = n /\ run'.obj = obj /\ run'.latest = ~Undelivered(n)
        /\ run'.count = 0 /\ run'.phase \in {NoPhase, Failed} /\ run'.message \in Reason
    BY <1>4 DEF Ending, NoRun, Reason
  <2>2. obj \in Simulations
    BY <1>4 DEF CachedTyped, MaybeSimulation
  <2>3. run'.latest => obj = simulation'[n]
    BY <1>1, <2>1 DEF Synced, storeVars
  <2>4. run'.latest \in BOOLEAN
    BY <2>1
  <2>5. RunTyped' /\ RunCurrent'
    <3> HIDE DEF obj, new
    <3> QED
      BY <2>1, <2>2, <2>3, <2>4 DEF RunTyped, RunCurrent
  <2> QED
    BY <1>1, <1>2, <2>5, RunKeeps
<1> QED
  BY <1>1, <1>3, <1>4

(* The status is written onto the copy only while that is the object.      *)
LEMMA StatusStep ==
  ASSUME KeptInv, run.stage = "status",
         StatusIsCurrent \/ StatusRefused \/ \E answered \in BOOLEAN : WriteStatus(answered),
         UNCHANGED requestVars, BodiesTyped'
  PROVE  KeptInv'
<1> USE DEF KeptInv, Typed
<1>1. run' = NoRun /\ cached' = cached
  BY DEF StatusIsCurrent, StatusRefused, WriteStatus
<1>2. RunTyped' /\ RunCurrent'
  BY <1>1, IdleRun
<1>3. CASE StatusIsCurrent \/ StatusRefused
  <2>1. UNCHANGED storeVars
    BY <1>3 DEF StatusIsCurrent, StatusRefused
  <2> QED
    BY <1>1, <1>2, <2>1, RunKeeps
<1>4. ASSUME NEW answered \in BOOLEAN, WriteStatus(answered)
      PROVE  KeptInv'
  <2> DEFINE n == run.name
             obj == StatusOf(run)
  <2>1. PutSimulation(n, obj) /\ run.latest
    BY <1>4 DEF WriteStatus
  <2>2. n \in SimName /\ run.obj \in Simulations /\ simulation[n] = run.obj
    BY <2>1 DEF RunTyped, RunCurrent
  <2>3. obj \in Simulations /\ obj.detectors = simulation[n].detectors
    <3>1. run.phase \in {NoPhase, Applied, Failed} /\ run.message \in Reason /\ run.count \in Nat
      BY DEF RunTyped
    <3> QED
      BY <2>2, <3>1, StatusKeepsLists
  <2> HIDE DEF obj
  <2>4. /\ StoreTyped' /\ Synced'
        /\ \E put \in MaybeSimulation :
             /\ simulation' = [simulation EXCEPT ![n] = put]
             /\ put # Absent /\ put.detectors = obj.detectors
    BY <1>1, <2>1, <2>2, <2>3, PutSound, SimulationsAreObjects DEF MaybeSimulation
  <2>5. Grows
    BY <2>3, <2>4 DEF Grows, StoreTyped
  <2>6. CachedTyped' /\ RequestTyped'
    BY <1>1 DEF CachedTyped, RequestTyped, requestVars
  <2>7. Kept'
    BY <2>5, GrowthKeeps DEF Kept, requestVars
  <2> QED
    BY <1>1, <1>2, <2>4, <2>6, <2>7
<1> QED
  BY <1>3, <1>4

LEMMA ControllerStep ==
  ASSUME KeptInv, Controller
  PROVE  KeptInv'
<1> USE DEF KeptInv, Typed
<1>1. UNCHANGED <<requestVars, left>> /\ BodiesTyped'
  BY DEF Controller, BodiesTyped
<1>2. CASE StartCall
  <2>1. /\ run.stage = "call" /\ UNCHANGED <<storeVars, cached>>
        /\ run' = CallFailed(run) \/ \E t \in Caller : run' = [run EXCEPT !.stage = "wait", !.thread = t]
    BY <1>2 DEF StartCall
  <2>2. RunTyped' /\ RunCurrent'
    <3>1. simulation' = simulation
      BY <2>1 DEF storeVars
    <3>2. CASE run' = CallFailed(run)
      BY <2>1, <3>1, <3>2, FailingRun
    <3>3. ASSUME NEW t \in Caller, run' = [run EXCEPT !.stage = "wait", !.thread = t]
          PROVE  RunTyped' /\ RunCurrent'
      <4>1. /\ DOMAIN run' = DOMAIN run
            /\ run'.name = run.name /\ run'.obj = run.obj /\ run'.latest = run.latest
            /\ run'.count = run.count /\ run'.phase = run.phase /\ run'.message = run.message
        BY <3>3
      <4> QED
        BY <2>1, <3>1, <4>1, RunGoesOn DEF RunTyped
    <3> QED
      BY <2>1, <3>2, <3>3
  <2> QED
    BY <1>1, <2>1, <2>2, RunKeeps
<1>3. CASE ReturnCall \/ AllCalled
  <2>1. /\ run.stage # "idle" /\ UNCHANGED <<storeVars, cached>>
        /\ \/ run' = [run EXCEPT !.stage = "call", !.todo = Tail(@), !.count = @ + 1, !.thread = Absent]
           \/ run' = Ending(run, Applied, NoReason)
    BY <1>3 DEF ReturnCall, AllCalled
  <2>2. /\ DOMAIN run' = DOMAIN run
        /\ run'.name = run.name /\ run'.obj = run.obj /\ run'.latest = run.latest
        /\ run'.count \in {run.count, run.count + 1} /\ run'.phase \in {run.phase, Applied}
        /\ run'.message \in {run.message, NoReason}
    BY <2>1 DEF Ending, RunTyped, NoRun
  <2>3. RunTyped' /\ RunCurrent'
    <3>1. run'.phase \in {NoPhase, Applied, Failed} /\ run'.message \in Reason
      BY <2>2 DEF RunTyped, Reason
    <3>2. run'.count \in Nat
      BY <2>2 DEF RunTyped
    <3>3. simulation' = simulation
      BY <2>1 DEF storeVars
    <3> QED
      BY <2>1, <2>2, <3>1, <3>2, <3>3, RunGoesOn
  <2> QED
    BY <1>1, <2>1, <2>3, RunKeeps
<1>4. CASE patchStatus
  BY <1>1, <1>4, StatusStep DEF patchStatus
<1> QED
  BY <1>2, <1>3, <1>4 DEF Controller, ReconcileStep

LEMMA FaultStep ==
  ASSUME KeptInv, Faults
  PROVE  KeptInv'
<1> USE DEF KeptInv, Typed
<1>1. BodiesTyped' /\ UNCHANGED requestVars
  BY BoundsKeepBodies DEF Faults
<1>2. CASE CallFails
  <2>1. run.stage = "wait" /\ run' = CallFailed(run) /\ UNCHANGED <<storeVars, cached>>
    BY <1>2 DEF CallFails
  <2>2. RunTyped' /\ RunCurrent'
    BY <2>1, FailingRun DEF storeVars
  <2> QED
    BY <1>1, <2>1, <2>2, RunKeeps
<1>3. CASE StatusUpdateFails
  <2>1. run.stage = "status" /\ (WriteStatus(FALSE) \/ StatusRefused)
    BY <1>3 DEF StatusUpdateFails
  <2> QED
    BY <1>1, <2>1, StatusStep
<1>4. CASE RestartController
  <2>1. /\ cached' = [simulation |-> simulation, device |-> device] /\ run' = NoRun
        /\ watch' = NoEvents /\ UNCHANGED <<simulation, device>>
    BY <1>4 DEF RestartController
  <2>2. StoreTyped' /\ CachedTyped' /\ Synced'
    BY <2>1 DEF StoreTyped, CachedTyped, Synced, Undelivered, NoEvents
  <2>3. RequestTyped' /\ Kept'
    BY <1>1, <2>1 DEF RequestTyped, Kept, KeptOf, Lists, requestVars
  <2> QED
    BY <1>1, <2>1, <2>2, <2>3, IdleRun
<1>5. CASE Others
  BY <1>1, <1>5, FrameKeeps DEF Others, controllerVars
<1> QED
  BY <1>2, <1>3, <1>4, <1>5 DEF Faults

LEMMA SimulatorStep ==
  ASSUME KeptInv,
         \/ LanThread
         \/ \E c \in Client : Sends(c)
         \/ \E t \in Caller : Calls(t)
         \/ \E t \in Thread : Announcing(t)
         \/ SimulatorStarts
  PROVE  KeptInv'
<1>1. Others /\ (UNCHANGED left \/ Spend("packets") \/ Spend("calls"))
  BY DEF LanThread, Sends, Calls, Announcing, SimulatorStarts
<1>2. BodiesTyped'
  BY <1>1, BoundsKeepBodies DEF KeptInv, Typed
<1> QED
  BY <1>1, <1>2, FrameKeeps DEF Others, controllerVars

LEMMA StopStep ==
  ASSUME KeptInv, SimulatorStops
  PROVE  KeptInv'
<1> USE DEF KeptInv, Typed
<1>1. /\ UNCHANGED <<storeVars, requestVars, cached>>
      /\ UNCHANGED left \/ Spend("faults")
      /\ \/ run.stage = "wait" /\ run' = [CallFailed(run) EXCEPT !.clean = FALSE]
         \/ run.stage # "wait" /\ run' = NoRun
         \/ run.stage # "wait" /\ run' = [run EXCEPT !.clean = FALSE]
  BY DEF SimulatorStops
<1>2. BodiesTyped'
  BY <1>1, BoundsKeepBodies
<1>3. RunTyped' /\ RunCurrent'
  <2>1. simulation' = simulation
    BY <1>1 DEF storeVars
  <2>2. CASE run.stage = "wait" /\ run' = [CallFailed(run) EXCEPT !.clean = FALSE]
    BY <2>1, <2>2, FailingRun
  <2>3. CASE run' = NoRun
    BY <2>3, IdleRun
  <2>4. CASE run' = [run EXCEPT !.clean = FALSE]
    BY <2>1, <2>4 DEF RunTyped, RunCurrent, NoRun
  <2> QED
    BY <1>1, <2>2, <2>3, <2>4
<1> QED
  BY <1>1, <1>2, <1>3, RunKeeps

-----------------------------------------------------------------------------
LEMMA KeptInitially ==
  ASSUME Init
  PROVE  KeptInv
<1>1. /\ left \in Scenarios /\ left.device \in Backend /\ "bodies" \in DOMAIN left
      /\ \A body \in left.bodies : IsBody(body)
  BY ScenariosAssumption DEF Init, Backend
<1>2. /\ simulation = [n \in SimName |-> Absent]
      /\ device = [v \in Device |-> IF v = Simulated THEN left.device ELSE Hardware]
      /\ watch = NoEvents
      /\ cached = [simulation |-> simulation, device |-> device] /\ run = NoRun
      /\ request = [r \in Request |-> NewRequest] /\ overruled = FALSE
  BY DEF Init, RequestInit, ControllerInit
<1>3. StoreTyped
  BY <1>1, <1>2 DEF StoreTyped, MaybeSimulation, Backend, NoEvents
<1>4. CachedTyped /\ Synced
  BY <1>2, <1>3 DEF StoreTyped, CachedTyped, Synced, Undelivered, NoEvents
<1>5. NewRequest \in RequestState /\ NewRequest.stage = "new"
  <2>1. <<>> \in [{} -> Nat] /\ {} \in SUBSET (NetID \cup {0})
    OBVIOUS
  <2>2. <<>> \in Bodies
    BY <2>1 DEF Bodies
  <2> QED
    BY <2>2 DEF NewRequest, RequestState, MaybeSimulation
<1>6. RequestTyped /\ Kept
  BY <1>2, <1>5 DEF RequestTyped, Kept, KeptOf
<1>7. RunTyped /\ RunCurrent
  BY <1>2 DEF RunTyped, RunCurrent, NoRun, Reason
<1> QED
  <2>1. BodiesTyped
    BY <1>1 DEF BodiesTyped
  <2> QED
    BY <1>3, <1>4, <1>6, <1>7, <2>1 DEF KeptInv, Typed

LEMMA KeptNext == KeptInv /\ [Next]_vars => KeptInv'
<1> SUFFICES ASSUME KeptInv, [Next]_vars
             PROVE  KeptInv'
  OBVIOUS
<1>1. CASE UNCHANGED vars
  <2>1. UNCHANGED <<storeVars, requestVars, controllerVars, left>>
    BY <1>1 DEF vars
  <2>2. BodiesTyped'
    BY <2>1 DEF KeptInv, Typed, BodiesTyped
  <2> QED
    BY <2>1, <2>2, FrameKeeps DEF controllerVars
<1>2. CASE Next
  BY <1>2, UserStep, AskStep, ApiStep, InformerStep, ReconcileStarts, ControllerStep, FaultStep,
     SimulatorStep, StopStep DEF Next
<1> QED
  BY <1>1, <1>2

(* The detectors of an answered request stay in its simulation, unless a   *)
(* request that had read an older list replaced it: SimulateCAN's answer   *)
(* is kept although statuses are written from copies.                      *)
THEOREM AnsweredAlwaysKept == Spec => []AnsweredIsKept
<1>1. Init => KeptInv
  BY KeptInitially
<1>2. KeptInv /\ [Next]_vars => KeptInv'
  BY KeptNext
<1>3. KeptInv => AnsweredIsKept
  BY DEF KeptInv, Kept, KeptOf, Lists, AnsweredIsKept
<1> QED
  BY <1>1, <1>2, <1>3, PTL DEF Spec

-----------------------------------------------------------------------------
(***************************************************************************)
(* The simulator among the other parts.  They only call it, and what they  *)
(* call it with is typed: the calls the controller has yet to make, and    *)
(* the packets that clients send.                                          *)
(***************************************************************************)
CANCalls == [net : NetID, device : {d \in CANDevice : d.kind \in {Detector, Booster}}]

CallsTyped == run.todo \in Seq(CANCalls) /\ (run.stage = "wait" => run.todo # <<>>)

PacketsTyped == "mix" \in DOMAIN left /\ left.mix \in [Client -> SUBSET Seq(LanMessage)]

SimulatorInv == KeptInv /\ CallsTyped /\ PacketsTyped /\ ServerInv

LEMMA PacketsStayTyped ==
  ASSUME PacketsTyped,
         \/ UNCHANGED left
         \/ \E what \in {"requests", "calls", "packets", "edits", "faults"} : Spend(what)
  PROVE  PacketsTyped'
BY DEF PacketsTyped, Spend

(* A set of net IDs has an order: without the highest one it would have    *)
(* none either, and so on down to the empty set.                           *)
LEMMA OrderExists ==
  ASSUME NEW S \in SUBSET NetID
  PROVE  /\ Cardinality(S) \in Nat
         /\ \E s \in [1 .. Cardinality(S) -> S] : \A i, j \in DOMAIN s : i < j => s[i] < s[j]
<1> DEFINE Ordered(R) == \E s \in [1 .. Cardinality(R) -> R] : \A i, j \in DOMAIN s : i < j => s[i] < s[j]
           Bad == {k \in Nat : \E R \in SUBSET NetID : Cardinality(R) = k /\ ~Ordered(R)}
<1>1. \A R \in SUBSET NetID : IsFiniteSet(R) /\ Cardinality(R) \in Nat
  BY NetIDsFinite, FS_Subset, FS_CardinalityType
<1>2. ASSUME Bad # {}
      PROVE  FALSE
  <2>1. PICK k \in Bad : \A m \in Bad : k <= m
    <3>1. Bad \in SUBSET Nat
      OBVIOUS
    <3> HIDE DEF Bad
    <3> QED
      BY <1>2, <3>1, LeastExists
  <2>2. PICK R \in SUBSET NetID : Cardinality(R) = k /\ ~Ordered(R)
    OBVIOUS
  <2>3. k \in Nat
    OBVIOUS
  <2> HIDE DEF Bad
  <2>4. R # {}
    <3> SUFFICES ASSUME R = {}
                 PROVE  FALSE
      OBVIOUS
    <3>1. Cardinality(R) = 0
      BY FS_EmptySet
    <3>2. <<>> \in [1 .. 0 -> {}] /\ \A i, j \in DOMAIN <<>> : i < j => <<>>[i] < <<>>[j]
      OBVIOUS
    <3>3. Ordered(R)
      BY <3>1, <3>2
    <3> QED
      BY <2>2, <3>3
  <2>5. PICK m \in R : \A n \in R : n <= m
    <3>1. MaxNetID \in Nat
      BY DEF MaxNetID
    <3>2. R \in SUBSET (1 .. MaxNetID)
      BY NetIDAssumption
    <3> QED
      BY <2>4, <3>1, <3>2, MaxExists
  <2> DEFINE Q == R \ {m}
  <2>6. Q \in SUBSET NetID /\ Cardinality(Q) = k - 1 /\ k - 1 \in Nat
    <3>1. Cardinality(Q) = Cardinality(R) - 1
      BY <1>1, FS_RemoveElement
    <3>2. Q \in SUBSET NetID /\ Cardinality(Q) \in Nat
      BY <1>1
    <3> QED
      BY <2>2, <2>3, <3>1, <3>2
  <2>7. Ordered(Q)
    <3>1. Cardinality(Q) \notin Bad
      BY <2>1, <2>3, <2>6
    <3> QED
      BY <2>6, <3>1 DEF Bad
  <2>8. PICK s \in [1 .. k - 1 -> Q] : \A i, j \in DOMAIN s : i < j => s[i] < s[j]
    BY <2>6, <2>7
  <2>9. \A n \in R : n \in Int
    <3>1. MaxNetID \in Int
      BY DEF MaxNetID
    <3> QED
      BY <3>1, NetIDAssumption
  <2>10. \A n \in Q : n < m
    BY <2>5, <2>9
  <2> HIDE DEF Q
  <2> DEFINE new == [i \in 1 .. k |-> IF i = k THEN m ELSE s[i]]
  <2>11. Q \subseteq R
    BY DEF Q
  <2>12. \A i \in 1 .. k : i # k => i \in 1 .. k - 1
    BY <2>3
  <2>13. new \in [1 .. k -> R]
    BY <2>8, <2>11, <2>12
  <2>14. \A i, j \in 1 .. k : i < j => new[i] < new[j]
    <3> SUFFICES ASSUME NEW i \in 1 .. k, NEW j \in 1 .. k, i < j
                 PROVE  new[i] < new[j]
      OBVIOUS
    <3>1. i \in 1 .. k - 1 /\ i # k
      BY <2>3
    <3>2. CASE j = k
      BY <2>8, <2>10, <3>1, <3>2
    <3>3. CASE j # k
      BY <2>8, <2>12, <3>1, <3>3
    <3> QED
      BY <3>2, <3>3
  <2>15. Ordered(R)
    <3>1. DOMAIN new = 1 .. k
      OBVIOUS
    <3> HIDE DEF new
    <3> QED
      BY <2>2, <2>13, <2>14, <3>1
  <2> QED
    BY <2>2, <2>15
<1> QED
  BY <1>1, <1>2

LEMMA InOrderTyped ==
  ASSUME NEW S \in SUBSET NetID
  PROVE  Cardinality(S) \in Nat /\ InOrder(S) \in [1 .. Cardinality(S) -> S]
<1>1. \E s \in [1 .. Cardinality(S) -> S] : \A i, j \in DOMAIN s : i < j => s[i] < s[j]
  BY OrderExists
<1>2. InOrder(S) \in [1 .. Cardinality(S) -> S]
  BY <1>1, Zenon DEF InOrder
<1> QED
  BY <1>2, OrderExists

LEMMA BuiltDevice ==
  ASSUME NEW kind \in {Detector, Booster}, NEW at \in Nat
  PROVE  BuildCANDevice(kind, at) \in {d \in CANDevice : d.kind \in {Detector, Booster}}
<1>1. at % 65536 \in Nat
  OBVIOUS
<1>2. PICK a \in Nat : a = Uint16(at)
  BY <1>1 DEF Uint16
<1>3. \A k \in {Detector, Booster} : NewDevice(k, Default(a)) \in CANDevice
                                     /\ NewDevice(k, Default(a)).kind = k
  BY DEF NewDevice, Default, CANDevice
<1> QED
  BY <1>2, <1>3 DEF BuildCANDevice, newDetectorDevice, newBoosterDevice

LEMMA CallsForTyped ==
  ASSUME NEW S \in SUBSET NetID, NEW list \in [S -> Nat], NEW kind \in {Detector, Booster}
  PROVE  CallsFor(list, kind) \in Seq(CANCalls)
<1>1. PICK order : order = InOrder(S)
  OBVIOUS
<1>2. PICK k \in Nat : order \in [1 .. k -> S]
  BY <1>1, InOrderTyped
<1>3. \A i \in 1 .. k : Default(list[order[i]]) \in Nat
  BY <1>2 DEF Default
<1>4. \A i \in 1 .. k :
        [net |-> order[i], device |-> BuildCANDevice(kind, Default(list[order[i]]))] \in CANCalls
  <2> SUFFICES ASSUME NEW i \in 1 .. k
               PROVE  [net |-> order[i], device |-> BuildCANDevice(kind, Default(list[order[i]]))] \in CANCalls
    OBVIOUS
  <2>1. order[i] \in NetID
    BY <1>2
  <2>2. BuildCANDevice(kind, Default(list[order[i]])) \in {d \in CANDevice : d.kind \in {Detector, Booster}}
    BY <1>3, BuiltDevice
  <2> QED
    BY <2>1, <2>2 DEF CANCalls
<1>5. CallsFor(list, kind) =
        [i \in 1 .. k |-> [net |-> order[i], device |-> BuildCANDevice(kind, Default(list[order[i]]))]]
  BY <1>1, <1>2 DEF CallsFor
<1> QED
  BY <1>4, <1>5

LEMMA DeviceCallsTyped ==
  ASSUME NEW obj \in Simulations
  PROVE  CANDevices(obj) \in Seq(CANCalls)
<1>1. CallsFor(obj.detectors, Detector) \in Seq(CANCalls) /\ CallsFor(obj.boosters, Booster) \in Seq(CANCalls)
  BY SimulationFields, CallsForTyped
<1> QED
  BY <1>1 DEF CANDevices

(* The steps that leave the simulator alone and the calls to be made.      *)
LEMMA CallsStay ==
  ASSUME CallsTyped, run'.todo = run.todo, run'.stage = run.stage \/ run'.stage = "status"
  PROVE  CallsTyped'
BY DEF CallsTyped

LEMMA NoCalls ==
  ASSUME run' = NoRun
  PROVE  CallsTyped'
<1>1. <<>> \in Seq(CANCalls)
  OBVIOUS
<1> QED
  BY <1>1 DEF CallsTyped, NoRun

LEMMA FailedCalls ==
  ASSUME RunTyped, CallsTyped, run' \in {CallFailed(run), [CallFailed(run) EXCEPT !.clean = FALSE]}
  PROVE  CallsTyped'
<1>1. run'.todo = run.todo /\ run'.stage = "status"
  BY DEF CallFailed, Ending, RunTyped, NoRun
<1> QED
  BY <1>1, CallsStay

LEMMA ObjectsOnly ==
  ASSUME SimulatorInv,
         \/ UserEdits
         \/ \E r \in Request : Asks(r) \/ Api(r)
         \/ \E kind \in {"simulation", "device"} : Informer(kind)
  PROVE  UNCHANGED simVars /\ CallsTyped' /\ PacketsTyped'
<1>1. /\ UNCHANGED simVars
      /\ UNCHANGED left \/ Spend("edits") \/ Spend("requests")
      /\ Outdates \/ run' = run
  BY DEF UserEdits, Asks, Api, Informer, Deliver, controllerVars
<1>2. run'.todo = run.todo /\ run'.stage = run.stage
  <2>1. CASE run' = run
    BY <2>1
  <2>2. CASE run' = [run EXCEPT !.latest = FALSE]
    BY <2>2 DEF SimulatorInv, KeptInv, Typed, RunTyped, NoRun
  <2> QED
    BY <1>1, <2>1, <2>2 DEF Outdates
<1>3. CallsTyped'
  BY <1>2, CallsStay DEF SimulatorInv
<1> QED
  BY <1>1, <1>3, PacketsStayTyped DEF SimulatorInv

LEMMA ReconcileCalls ==
  ASSUME SimulatorInv, NEW n \in SimName, StartReconcile(n)
  PROVE  UNCHANGED simVars /\ CallsTyped' /\ PacketsTyped'
<1> DEFINE obj == cached.simulation[n]
           new == [NoRun EXCEPT !.name = n, !.obj = obj, !.latest = ~Undelivered(n)]
<1>1. /\ UNCHANGED simVars /\ UNCHANGED left
      /\ \/ run' = NoRun
         \/ \E message \in {"deviceRef", "not found", "backend"} : run' = Ending(new, Failed, message)
         \/ obj # Absent /\ run' = [new EXCEPT !.stage = "call", !.todo = CANDevices(obj)]
  BY DEF StartReconcile, Reconcile
<1>2. PacketsTyped'
  BY <1>1, PacketsStayTyped DEF SimulatorInv
<1>3. ASSUME NEW message, run' = Ending(new, Failed, message)
      PROVE  CallsTyped'
  <2>1. run'.todo = <<>> /\ run'.stage = "status"
    BY <1>3 DEF Ending, NoRun
  <2>2. <<>> \in Seq(CANCalls)
    OBVIOUS
  <2> QED
    BY <2>1, <2>2 DEF CallsTyped
<1>4. ASSUME obj # Absent, run' = [new EXCEPT !.stage = "call", !.todo = CANDevices(obj)]
      PROVE  CallsTyped'
  <2>1. run'.todo = CANDevices(obj) /\ run'.stage = "call"
    BY <1>4 DEF NoRun
  <2>2. obj \in Simulations
    BY <1>4 DEF SimulatorInv, KeptInv, Typed, CachedTyped, MaybeSimulation
  <2> HIDE DEF obj
  <2>3. CANDevices(obj) \in Seq(CANCalls)
    BY <2>2, DeviceCallsTyped
  <2> QED
    BY <2>1, <2>3 DEF CallsTyped
<1> QED
  BY <1>1, <1>2, <1>3, <1>4, NoCalls

LEMMA ControllerCalls ==
  ASSUME SimulatorInv, Controller
  PROVE  [ServerStep]_simVars /\ CallsTyped' /\ PacketsTyped'
<1>1. PacketsTyped' /\ RunTyped /\ CallsTyped
  BY PacketsStayTyped DEF SimulatorInv, KeptInv, Typed, Controller
<1>2. CASE StartCall /\ up
  <2>1. /\ run.stage = "call" /\ run.todo # <<>>
        /\ \E t \in Caller :
             /\ NotifyCANDeviceDetected(t, Head(run.todo).net, Head(run.todo).device)
             /\ run' = [run EXCEPT !.stage = "wait", !.thread = t]
    BY <1>2 DEF StartCall
  <2>2. Head(run.todo) \in CANCalls
    BY <1>1, <2>1 DEF CallsTyped
  <2>3. /\ Head(run.todo).net \in NetID /\ Head(run.todo).device \in CANDevice
        /\ Head(run.todo).device.kind \in {Detector, Booster}
    BY <2>2 DEF CANCalls
  <2>4. run'.todo = run.todo /\ run'.stage = "wait"
    BY <1>1, <2>1 DEF RunTyped, NoRun
  <2>5. CallsTyped'
    BY <1>1, <2>1, <2>4 DEF CallsTyped
  <2>6. ServerStep
    BY <2>1, <2>3 DEF ServerStep
  <2> QED
    BY <1>1, <2>5, <2>6
<1>3. CASE StartCall /\ ~up
  <2>1. run' = CallFailed(run) /\ UNCHANGED simVars
    BY <1>3 DEF StartCall
  <2> QED
    BY <1>1, <2>1, FailedCalls
<1>4. CASE ReturnCall
  <2>1. /\ run.stage = "wait" /\ UNCHANGED simVars
        /\ run' = [run EXCEPT !.stage = "call", !.todo = Tail(@), !.count = @ + 1, !.thread = Absent]
    BY <1>4 DEF ReturnCall
  <2>2. run.todo \in Seq(CANCalls) /\ run.todo # <<>>
    BY <1>1, <2>1 DEF CallsTyped
  <2>3. run'.todo = Tail(run.todo) /\ run'.stage = "call"
    BY <1>1, <2>1 DEF RunTyped, NoRun
  <2>4. Tail(run.todo) \in Seq(CANCalls)
    BY <2>2
  <2> QED
    BY <1>1, <2>1, <2>3, <2>4 DEF CallsTyped
<1>5. CASE AllCalled
  <2>1. run' = Ending(run, Applied, NoReason) /\ UNCHANGED simVars
    BY <1>5 DEF AllCalled
  <2>2. run'.todo = run.todo /\ run'.stage = "status"
    BY <1>1, <2>1 DEF Ending, RunTyped, NoRun
  <2> QED
    BY <1>1, <2>1, <2>2, CallsStay
<1>6. CASE patchStatus
  <2>1. run' = NoRun /\ UNCHANGED simVars
    BY <1>6 DEF patchStatus, StatusIsCurrent, WriteStatus, StatusRefused
  <2> QED
    BY <1>1, <2>1, NoCalls
<1> QED
  BY <1>2, <1>3, <1>4, <1>5, <1>6 DEF Controller, ReconcileStep

LEMMA SimulatorMoves ==
  ASSUME SimulatorInv,
         \/ LanThread
         \/ \E c \in Client : Sends(c)
         \/ \E t \in Caller : Calls(t)
         \/ \E t \in Thread : Announcing(t)
         \/ SimulatorStarts
  PROVE  [ServerStep]_simVars /\ CallsTyped' /\ PacketsTyped'
<1>1. Others /\ (UNCHANGED left \/ Spend("packets") \/ Spend("calls"))
  BY DEF LanThread, Sends, Calls, Announcing, SimulatorStarts
<1>2. PacketsTyped' /\ CallsTyped'
  BY <1>1, PacketsStayTyped DEF SimulatorInv, CallsTyped, Others, controllerVars
<1>3. ASSUME NEW c \in Client, Sends(c)
      PROVE  ServerStep
  <2>1. PICK msgs \in left.mix[c] : Receive(c, msgs)
    BY <1>3 DEF Sends
  <2>2. msgs \in Seq(LanMessage)
    BY DEF SimulatorInv, PacketsTyped
  <2> QED
    BY <2>1, <2>2 DEF ServerStep
<1>4. ASSUME NEW t \in Caller, Calls(t)
      PROVE  ServerStep
  BY <1>4 DEF Calls, ServerStep
<1>5. ASSUME NEW t \in Thread, Announcing(t)
      PROVE  ServerStep
  BY <1>5 DEF Announcing, ThreadStep, ServerStep
<1>6. CASE LanThread \/ SimulatorStarts
  BY <1>2, <1>6 DEF LanThread, SimulatorStarts, ServerStep
<1> QED
  BY <1>2, <1>3, <1>4, <1>5, <1>6

LEMMA StopOrFault ==
  ASSUME SimulatorInv, SimulatorStops \/ Faults
  PROVE  [ServerStep]_simVars /\ CallsTyped' /\ PacketsTyped'
<1>1. RunTyped /\ CallsTyped /\ (UNCHANGED left \/ Spend("faults"))
  BY DEF SimulatorInv, KeptInv, Typed, SimulatorStops, Faults
<1>2. PacketsTyped'
  BY <1>1, PacketsStayTyped DEF SimulatorInv
<1>3. CASE SimulatorStops
  <2>1. /\ Stop
        /\ \/ run' = [CallFailed(run) EXCEPT !.clean = FALSE]
           \/ run' = NoRun
           \/ run' = [run EXCEPT !.clean = FALSE]
    BY <1>3 DEF SimulatorStops
  <2>2. CASE run' = [run EXCEPT !.clean = FALSE]
    <3>1. run'.todo = run.todo /\ run'.stage = run.stage
      BY <1>1, <2>2 DEF RunTyped, NoRun
    <3> QED
      BY <1>1, <1>2, <2>1, <3>1, CallsStay DEF ServerStep
  <2> QED
    BY <1>1, <1>2, <2>1, <2>2, NoCalls, FailedCalls DEF ServerStep
<1>4. CASE CallFails
  <2>1. run' = CallFailed(run) /\ UNCHANGED simVars
    BY <1>4 DEF CallFails
  <2> QED
    BY <1>1, <1>2, <2>1, FailedCalls
<1>5. CASE StatusUpdateFails \/ RestartController
  <2>1. run' = NoRun /\ UNCHANGED simVars
    BY <1>5 DEF StatusUpdateFails, WriteStatus, StatusRefused, RestartController
  <2> QED
    BY <1>2, <2>1, NoCalls
<1>6. CASE RepliesLost /\ Others
  <2>1. CallsTyped'
    BY <1>1, <1>6 DEF CallsTyped, Others, controllerVars
  <2> QED
    BY <1>2, <1>6, <2>1 DEF ServerStep
<1>7. CASE (\E t \in Thread, c \in Client : DatagramLost(t, c)) /\ Others
  <2>1. CallsTyped'
    BY <1>1, <1>7 DEF CallsTyped, Others, controllerVars
  <2> QED
    BY <1>2, <1>7, <2>1 DEF ServerStep
<1> QED
  BY <1>3, <1>4, <1>5, <1>6, <1>7 DEF Faults

LEMMA SimulatorInitially ==
  ASSUME Init
  PROVE  SimulatorInv
<1>1. /\ left \in Scenarios /\ up = left.up /\ left.up \in BOOLEAN /\ "mix" \in DOMAIN left
      /\ left.mix \in [Client -> SUBSET Seq(LanMessage)]
  BY ScenariosAssumption DEF Init
<1>2. ServerInit /\ run = NoRun
  BY DEF Init, ControllerInit
<1>3. ServerInv
  BY <1>1, <1>2, ServerInitially
<1>4. CallsTyped
  <2>1. run.todo = <<>> /\ run.stage = "idle"
    BY <1>2 DEF NoRun
  <2>2. <<>> \in Seq(CANCalls)
    OBVIOUS
  <2> QED
    BY <2>1, <2>2 DEF CallsTyped
<1> QED
  BY <1>1, <1>3, <1>4, KeptInitially DEF SimulatorInv, PacketsTyped

LEMMA SimulatorAsModelled ==
  ASSUME SimulatorInv, [Next]_vars
  PROVE  [ServerStep]_simVars /\ CallsTyped' /\ PacketsTyped'
<1>1. CASE UNCHANGED vars
  BY <1>1 DEF vars, SimulatorInv, CallsTyped, PacketsTyped, controllerVars
<1>2. CASE UserEdits \/ (\E r \in Request : Asks(r) \/ Api(r))
           \/ (\E kind \in {"simulation", "device"} : Informer(kind))
  BY <1>2, ObjectsOnly
<1>3. CASE \E n \in SimName : StartReconcile(n)
  BY <1>3, ReconcileCalls
<1>4. CASE Controller
  BY <1>4, ControllerCalls
<1>5. CASE \/ LanThread
           \/ \E c \in Client : Sends(c)
           \/ \E t \in Caller : Calls(t)
           \/ \E t \in Thread : Announcing(t)
           \/ SimulatorStarts
  BY <1>5, SimulatorMoves
<1>6. CASE SimulatorStops \/ Faults
  BY <1>6, StopOrFault
<1> QED
  BY <1>1, <1>2, <1>3, <1>4, <1>5, <1>6 DEF Next

LEMMA SimulatorHolds == Spec => []SimulatorInv
<1>1. Init => SimulatorInv
  BY SimulatorInitially
<1>2. SimulatorInv /\ [Next]_vars => SimulatorInv'
  <2> SUFFICES ASSUME SimulatorInv, [Next]_vars
               PROVE  SimulatorInv'
    OBVIOUS
  <2>1. [ServerStep]_simVars /\ CallsTyped' /\ PacketsTyped'
    BY SimulatorAsModelled
  <2>2. KeptInv'
    BY KeptNext DEF SimulatorInv
  <2>3. ServerInv'
    BY <2>1, ServerKeeps DEF SimulatorInv
  <2> QED
    BY <2>1, <2>2, <2>3 DEF SimulatorInv
<1> QED
  BY <1>1, <1>2, PTL DEF Spec

(* Whoever subscribed to the power before it changed has been told the new *)
(* power once all is announced, however the changes from LAN clients and   *)
(* from gRPC calls (setTrackPower, SetTrackPowerAndNotify) interleave with *)
(* the announcements, for any clients, threads and packets.                *)
THEOREM ChangesAlwaysAnnounced == Spec => []EveryChangeAnnounced
<1>1. SimulatorInv => EveryChangeAnnounced
  BY ServerIsCurrent DEF SimulatorInv
<1> QED
  BY <1>1, SimulatorHolds, PTL

(* What a subscriber was last told of the power or of a CAN device is what *)
(* holds, unless its last change overlapped the announcement of an earlier *)
(* one, or was one of handleCAN's, which are announced to nobody.          *)
THEOREM LastWordAlwaysCurrent == Spec => []LastWordIsCurrent
<1>1. SimulatorInv => LastWordIsCurrent
  BY ServerIsCurrent DEF SimulatorInv
<1> QED
  BY <1>1, SimulatorHolds, PTL

(* A client that subscribed and then polled has heard of every detector of *)
(* the registry that nobody is announcing: NotifyCANDeviceDetected enters  *)
(* a device before it asks who subscribes, so that none falls between the  *)
(* answer of handleCANDetectorPoll and the announcement.                   *)
THEOREM NoDetectorEverMissed == Spec => []NoDetectorMissed
<1>1. SimulatorInv => NoDetectorMissed
  BY ServerIsCurrent DEF SimulatorInv
<1> QED
  BY <1>1, SimulatorHolds, PTL

-----------------------------------------------------------------------------
(***************************************************************************)
(* Objects and their copies: what the controller, its cache and the watch  *)
(* hold of a simulation is what the simulation was at some time, and its   *)
(* status tells of a reconcile or of none.                                 *)
(***************************************************************************)
SoundObjects ==
  {o \in MaybeSimulation :
     o # Absent => o.observed <= o.generation /\ (o.phase = Failed <=> o.message # NoReason)}

ObjectsIn(G) ==
  /\ \A n \in SimName : simulation[n] \in G /\ cached.simulation[n] \in G
  /\ \A i \in DOMAIN watch.simulation : watch.simulation[i].obj \in G
  /\ run.stage # "idle" => run.obj \in G

RunSound ==
  /\ run.stage \in {"idle", "call", "wait", "status"} /\ (run.stage = "idle" => run = NoRun)
  /\ IF run.stage = "wait" THEN run.thread \in Caller ELSE run.thread = Absent
  /\ run.phase = Failed <=> run.message # NoReason
  /\ run.stage \in {"call", "wait"} => run.phase = NoPhase
  /\ queue \subseteq SimName

DownIsQuiet == ~up => packet = NoPacket /\ \A t \in Thread : job[t] = Idle

TypesInv == ObjectsIn(SoundObjects) /\ RunSound /\ DownIsQuiet

(* What a write makes of an object.                                        *)
LEMMA PutOutcome ==
  ASSUME StoreTyped, NEW n \in SimName, NEW obj, obj = Absent \/ DOMAIN obj = Fields,
         PutSimulation(n, obj)
  PROVE  /\ \A m \in SimName \ {n} : simulation'[m] = simulation[m]
         /\ IF simulation[n] = Absent \/ obj = Absent \/ SpecOf(simulation[n]) = SpecOf(obj)
            THEN simulation'[n] = obj
            ELSE /\ simulation'[n].generation = obj.generation + 1
                 /\ \A f \in Fields \ {"generation"} : simulation'[n][f] = obj[f]
<1> DEFINE new == [obj EXCEPT !.generation = @ + 1]
<1>1. simulation' = [simulation EXCEPT ![n] =
        IF simulation[n] = Absent \/ obj = Absent \/ SpecOf(simulation[n]) = SpecOf(obj)
        THEN obj ELSE new]
  BY DEF PutSimulation
<1>2. obj # Absent => /\ new.generation = obj.generation + 1
                      /\ \A f \in Fields \ {"generation"} : new[f] = obj[f]
  BY DEF Fields
<1> HIDE DEF new
<1> QED
  BY <1>1, <1>2 DEF StoreTyped

LEMMA NewObject ==
  ASSUME NEW v, NEW detectors, NEW boosters
  PROVE  LET obj == NewSimulation(v, detectors, boosters)
         IN  /\ DOMAIN obj = Fields
             /\ obj.generation = 1 /\ obj.observed = 0 /\ obj.phase = NoPhase
             /\ obj.message = NoReason
BY DEF NewSimulation, Fields

(* What one step makes of a simulation.                                    *)
Renewed(new) ==
  new.generation = 1 /\ new.observed = 0 /\ new.phase = NoPhase /\ new.message = NoReason

Respecified(old, new) ==
  /\ old # Absent /\ new.generation = old.generation + 1
  /\ \A f \in {"observed", "phase", "message", "applied"} : new[f] = old[f]

(* The status of a reconcile is the object's.                              *)
Told ==
  /\ run.stage = "status" /\ run.latest
  /\ simulation'[run.name] = StatusOf(run)
  /\ \A m \in SimName \ {run.name} : simulation'[m] = simulation[m]
  /\ ToldOf(run) /\ run' = NoRun /\ UNCHANGED simVars

LEMMA UserWrites ==
  ASSUME KeptInv, UserEdits, NEW n \in SimName
  PROVE  simulation'[n] \in {simulation[n], Absent} \/ Renewed(simulation'[n])
<1> USE DEF KeptInv, Typed
<1>1. ASSUME NEW m \in SimName, CreateSimulation(m)
      PROVE  simulation'[n] = simulation[n] \/ Renewed(simulation'[n])
  <2>1. PICK u \in Manifests : PutSimulation(m, NewSimulation(u.ref, u.detectors, u.boosters))
    BY <1>1 DEF CreateSimulation
  <2> DEFINE obj == NewSimulation(u.ref, u.detectors, u.boosters)
  <2>2. DOMAIN obj = Fields /\ Renewed(obj)
    BY NewObject DEF Renewed
  <2> HIDE DEF obj
  <2>3. PutSimulation(m, obj) /\ simulation[m] = Absent
    BY <1>1, <2>1 DEF CreateSimulation, obj
  <2> QED
    BY <2>2, <2>3, PutOutcome
<1>2. ASSUME NEW m \in SimName, DeleteSimulation(m)
      PROVE  simulation'[n] \in {simulation[n], Absent}
  BY <1>2, PutOutcome DEF DeleteSimulation
<1>3. CASE EditDevice
  BY <1>3 DEF EditDevice, PutDevice
<1> QED
  BY <1>1, <1>2, <1>3 DEF UserEdits

LEMMA RequestWrites ==
  ASSUME KeptInv, NEW r \in Request, simulateCAN(r), NEW n \in SimName
  PROVE  \/ simulation'[n] \in {simulation[n], Absent}
         \/ Renewed(simulation'[n])
         \/ Respecified(simulation[n], simulation'[n])
<1> USE DEF KeptInv, Typed
<1> DEFINE q == request[r]
<1>1. q \in RequestState /\ (q.stage # "new" => q.sim \in SimName)
  BY DEF RequestTyped
<1>2. CASE getDevice(r) \/ getSimulation(r)
  BY <1>2 DEF getDevice, getSimulation, storeVars
<1>3. CASE createSimulation(r)
  <2> DEFINE obj == NewSimulation(q.ref, detectorsFromAPI(q.body), <<>>)
  <2>1. q.sim \in SimName /\ (UNCHANGED simulation \/ (simulation[q.sim] = Absent /\ PutSimulation(q.sim, obj)))
    BY <1>1, <1>3 DEF createSimulation, storeVars
  <2>2. DOMAIN obj = Fields /\ Renewed(obj)
    BY NewObject DEF Renewed
  <2> HIDE DEF obj
  <2> QED
    BY <2>1, <2>2, PutOutcome
<1>4. CASE patchSimulation(r)
  <2> DEFINE now == simulation[q.sim]
             new == [q.read EXCEPT !.detectors = mergeCANDetectors(@, detectorsFromAPI(q.body))]
             put == MergePatch(now, q.read, new)
  <2>1. q.sim \in SimName /\ q.read \in Simulations /\ now \in MaybeSimulation
    BY <1>1, <1>4 DEF patchSimulation, RequestState, MaybeSimulation, StoreTyped
  <2>2. UNCHANGED simulation \/ (now # Absent /\ PutSimulation(q.sim, put))
    BY <1>4 DEF patchSimulation, storeVars
  <2>3. DOMAIN q.read = Fields /\ (now # Absent => DOMAIN now = Fields /\ now = [f \in Fields |-> now[f]])
    BY <2>1, SimulationFields DEF MaybeSimulation
  <2>4. \A f \in Fields \ {"detectors"} : new[f] = q.read[f]
    BY <2>3 DEF Fields
  <2> HIDE DEF new
  <2>5. now # Absent => /\ DOMAIN put = Fields /\ put = [f \in Fields |-> put[f]]
                        /\ \A f \in Fields \ {"detectors"} : put[f] = now[f]
    BY <2>3, <2>4 DEF MergePatch
  <2> HIDE DEF put
  <2>6. CASE now # Absent /\ PutSimulation(q.sim, put)
    <3>1. CASE SpecOf(now) = SpecOf(put)
      <4>1. put.detectors = now.detectors
        BY <3>1 DEF SpecOf
      <4>2. put = now
        BY <2>3, <2>5, <2>6, <4>1 DEF Fields
      <4>3. simulation'[q.sim] = simulation[q.sim] /\ \A m \in SimName \ {q.sim} : simulation'[m] = simulation[m]
        BY <2>1, <2>5, <2>6, <3>1, <4>2, PutOutcome
      <4> QED
        BY <4>3
    <3>2. CASE SpecOf(now) # SpecOf(put)
      <4>1. /\ \A m \in SimName \ {q.sim} : simulation'[m] = simulation[m]
            /\ put # Absent =>
                 /\ simulation'[q.sim].generation = put.generation + 1
                 /\ \A f \in Fields \ {"generation"} : simulation'[q.sim][f] = put[f]
        BY <2>1, <2>5, <2>6, <3>2, PutOutcome
      <4>2. CASE put = Absent
        BY <2>1, <2>5, <2>6, <3>2, <4>2, PutOutcome
      <4>3. CASE put # Absent
        <5>1. Respecified(now, simulation'[q.sim])
          BY <2>5, <2>6, <4>1, <4>3 DEF Respecified, Fields
        <5> QED
          BY <4>1, <5>1
      <4> QED
        BY <4>2, <4>3
    <3> QED
      BY <3>1, <3>2
  <2> QED
    BY <2>2, <2>6
<1> QED
  BY <1>2, <1>3, <1>4 DEF simulateCAN
LEMMA StatusWrites ==
  ASSUME KeptInv, run.stage = "status", UNCHANGED simVars,
         StatusIsCurrent \/ StatusRefused \/ \E answered \in BOOLEAN : WriteStatus(answered)
  PROVE  Told \/ (run' = NoRun /\ UNCHANGED <<simulation, disturbed>>)
<1> USE DEF KeptInv, Typed
<1>1. CASE StatusIsCurrent
  <2>1. /\ StatusOf(run) = run.obj /\ run' = NoRun /\ simulation' = simulation
        /\ IF run.latest THEN ToldOf(run) ELSE UNCHANGED disturbed
    BY <1>1 DEF StatusIsCurrent, storeVars
  <2>2. run.latest => run.obj = simulation[run.name]
    BY DEF RunCurrent
  <2> QED
    BY <2>1, <2>2 DEF Told
<1>2. CASE StatusRefused
  BY <1>2 DEF StatusRefused, storeVars
<1>3. ASSUME NEW answered \in BOOLEAN, WriteStatus(answered)
      PROVE  Told
  <2>1. /\ run.latest /\ PutSimulation(run.name, StatusOf(run)) /\ ToldOf(run) /\ run' = NoRun
    BY <1>3 DEF WriteStatus
  <2>2. run.name \in SimName /\ run.obj \in Simulations /\ simulation[run.name] = run.obj
    BY <2>1 DEF RunTyped, RunCurrent
  <2>3. DOMAIN run.obj = Fields
    BY <2>2, SimulationFields
  <2>4. DOMAIN StatusOf(run) = Fields /\ SpecOf(StatusOf(run)) = SpecOf(run.obj)
    BY <2>3 DEF StatusOf, SpecOf, Fields
  <2>5. /\ simulation'[run.name] = StatusOf(run)
        /\ \A m \in SimName \ {run.name} : simulation'[m] = simulation[m]
    BY <2>1, <2>2, <2>4, PutOutcome
  <2> QED
    BY <2>1, <2>5 DEF Told
<1> QED
  BY <1>1, <1>2, <1>3

(* The steps that write no simulation.                                     *)
LEMMA OthersWriteNone ==
  ASSUME [Next]_vars, ~UserEdits, \A r \in Request : ~simulateCAN(r),
         ~patchStatus, ~StatusUpdateFails
  PROVE  simulation' = simulation
BY DEF vars, storeVars, Next, Asks, Submit, Api, Informer, Deliver, StartReconcile, Reconcile,
       Controller, ReconcileStep, StartCall, ReturnCall, AllCalled, Sends, Others, LanThread, Calls,
       Announcing, SimulatorStarts, SimulatorStops, Faults, CallFails, RestartController

LEMMA StepWrites ==
  ASSUME KeptInv, [Next]_vars, NEW n \in SimName
  PROVE  \/ simulation'[n] \in {simulation[n], Absent}
         \/ Renewed(simulation'[n])
         \/ Respecified(simulation[n], simulation'[n])
         \/ Told /\ n = run.name
<1>1. CASE UserEdits
  BY <1>1, UserWrites
<1>2. CASE \E r \in Request : simulateCAN(r)
  BY <1>2, RequestWrites
<1>3. CASE patchStatus \/ StatusUpdateFails
  BY <1>3, StatusWrites DEF patchStatus, StatusUpdateFails, Told
<1> QED
  BY <1>1, <1>2, <1>3, OthersWriteNone

LEMMA SoundStatus ==
  ASSUME KeptInv, TypesInv, Told
  PROVE  StatusOf(run) \in SoundObjects
<1>1. /\ run.obj \in Simulations /\ run.phase \in {NoPhase, Applied, Failed} /\ run.message \in Reason
      /\ run.count \in Nat /\ (run.phase = Failed <=> run.message # NoReason)
  BY DEF KeptInv, Typed, RunTyped, TypesInv, RunSound, Told
<1>2. StatusOf(run) \in Simulations
  BY <1>1, StatusKeepsLists
<1>3. DOMAIN run.obj = Fields /\ run.obj.generation \in Nat
  BY <1>1, SimulationFields
<1>4. /\ StatusOf(run).observed = run.obj.generation /\ StatusOf(run).generation = run.obj.generation
      /\ StatusOf(run).phase = run.phase /\ StatusOf(run).message = run.message
  BY <1>3 DEF StatusOf, Fields
<1> QED
  BY <1>1, <1>2, <1>3, <1>4 DEF SoundObjects, MaybeSimulation

LEMMA SoundWrites ==
  ASSUME KeptInv, TypesInv, [Next]_vars, NEW n \in SimName
  PROVE  simulation'[n] \in SoundObjects
<1>1. simulation'[n] \in MaybeSimulation /\ simulation[n] \in SoundObjects
  BY KeptNext DEF KeptInv, Typed, StoreTyped, TypesInv, ObjectsIn
<1>2. CASE simulation'[n] \in {simulation[n], Absent}
  BY <1>1, <1>2 DEF SoundObjects
<1>3. CASE Renewed(simulation'[n])
  <2>1. simulation'[n].observed <= simulation'[n].generation
    BY <1>3 DEF Renewed
  <2>2. simulation'[n].phase # Failed /\ simulation'[n].message = NoReason
    BY <1>3 DEF Renewed, Failed, NoPhase
  <2> QED
    BY <1>1, <2>1, <2>2 DEF SoundObjects
<1>4. CASE Respecified(simulation[n], simulation'[n])
  <2>1. simulation[n] \in Simulations /\ simulation[n].observed <= simulation[n].generation
        /\ (simulation[n].phase = Failed <=> simulation[n].message # NoReason)
    BY <1>1, <1>4 DEF SoundObjects, MaybeSimulation, Respecified
  <2>2. simulation[n].observed \in Nat /\ simulation[n].generation \in Nat
    BY <2>1, SimulationFields
  <2>3. /\ simulation'[n].observed = simulation[n].observed
        /\ simulation'[n].generation = simulation[n].generation + 1
        /\ simulation'[n].phase = simulation[n].phase /\ simulation'[n].message = simulation[n].message
    BY <1>4 DEF Respecified
  <2>4. simulation'[n].observed <= simulation'[n].generation
    BY <2>1, <2>2, <2>3
  <2> QED
    BY <1>1, <2>1, <2>3, <2>4 DEF SoundObjects
<1>5. CASE Told /\ n = run.name
  BY <1>5, SoundStatus DEF Told
<1> QED
  BY <1>2, <1>3, <1>4, <1>5, StepWrites

(* The steps that touch the watch or the caches.                           *)
LEMMA StoreSteps ==
  ASSUME KeptInv, [Next]_vars
  PROVE  \/ UNCHANGED <<watch, cached>>
         \/ cached' = cached /\ (EditDevice \/ \E n \in SimName : \E obj : PutSimulation(n, obj))
         \/ \E kind \in {"simulation", "device"} : Deliver(kind)
         \/ RestartController
<1>1. CASE UserEdits
  BY <1>1 DEF UserEdits, CreateSimulation, DeleteSimulation
<1>2. ASSUME NEW r \in Request, Api(r)
      PROVE  cached' = cached /\ (UNCHANGED watch \/ \E n \in SimName : \E obj : PutSimulation(n, obj))
  <2>1. request[r].stage # "new" => request[r].sim \in SimName
    BY DEF KeptInv, Typed, RequestTyped
  <2> QED
    BY <1>2, <2>1 DEF Api, simulateCAN, getDevice, getSimulation, createSimulation, patchSimulation, storeVars
<1>3. CASE patchStatus \/ StatusUpdateFails
  <2>1. run.name \in SimName
    BY <1>3 DEF KeptInv, Typed, RunTyped, patchStatus, StatusUpdateFails
  <2> QED
    BY <1>3, <2>1 DEF patchStatus, StatusUpdateFails, StatusIsCurrent, WriteStatus, StatusRefused, storeVars
<1>4. CASE /\ ~UserEdits /\ ~patchStatus /\ ~StatusUpdateFails
           /\ \A r \in Request : ~Api(r)
           /\ \A kind \in {"simulation", "device"} : ~Deliver(kind)
           /\ ~RestartController
  BY <1>4 DEF vars, storeVars, controllerVars, Next, Asks, Submit, Informer, StartReconcile, Reconcile,
              Controller, ReconcileStep, StartCall, ReturnCall, AllCalled, Sends, Others, LanThread,
              Calls, Announcing, SimulatorStarts, SimulatorStops, Faults, CallFails
<1> QED
  BY <1>1, <1>2, <1>3, <1>4

(* What the watch and the cache hold after a step, the store held before   *)
(* it or holds now.                                                        *)
LEMMA CopiesStay ==
  ASSUME KeptInv, [Next]_vars, NEW G, ObjectsIn(G), \A n \in SimName : simulation'[n] \in G
  PROVE  /\ \A n \in SimName : cached'.simulation[n] \in G
         /\ \A i \in DOMAIN watch'.simulation : watch'.simulation[i].obj \in G
<1>1. /\ KeptInv' /\ StoreTyped /\ CachedTyped
      /\ \A n \in SimName : cached.simulation[n] \in G
      /\ \A i \in DOMAIN watch.simulation : watch.simulation[i].obj \in G
  BY KeptNext DEF KeptInv, Typed, ObjectsIn
<1>2. ASSUME cached' = cached, NEW m \in SimName, NEW obj, PutSimulation(m, obj)
      PROVE  /\ \A n \in SimName : cached'.simulation[n] \in G
             /\ \A i \in DOMAIN watch'.simulation : watch'.simulation[i].obj \in G
  <2> DEFINE e == [name |-> m, obj |-> simulation'[m]]
  <2>1. UNCHANGED watch \/ watch' = [watch EXCEPT !["simulation"] = Append(watch.simulation, e)]
    BY <1>1, <1>2 DEF PutSimulation, Publish, StoreTyped
  <2>2. watch.simulation \in Seq(Event(SimName, MaybeSimulation)) /\ e \in Event(SimName, MaybeSimulation)
    BY <1>1 DEF KeptInv, Typed, StoreTyped, Event
  <2>3. e.obj \in G
    OBVIOUS
  <2> HIDE DEF e
  <2>4. watch'.simulation \in {watch.simulation, Append(watch.simulation, e)}
    BY <1>1, <2>1 DEF StoreTyped
  <2> QED
    BY <1>1, <1>2, <2>2, <2>3, <2>4
<1>3. CASE cached' = cached /\ EditDevice
  <2>1. watch'.simulation = watch.simulation
    BY <1>1, <1>3, DevicePut, StoreAssumption DEF EditDevice, Backend
  <2> QED
    BY <1>1, <1>3, <2>1
<1>4. ASSUME NEW kind \in {"simulation", "device"}, Deliver(kind)
      PROVE  /\ \A n \in SimName : cached'.simulation[n] \in G
             /\ \A i \in DOMAIN watch'.simulation : watch'.simulation[i].obj \in G
  <2> DEFINE ws == watch.simulation
             e == Head(watch[kind])
  <2>1. /\ watch[kind] # <<>> /\ watch' = [watch EXCEPT ![kind] = Tail(@)]
        /\ cached' = [cached EXCEPT ![kind][e.name] = e.obj]
    BY <1>4 DEF Deliver
  <2>2. CASE kind = "device"
    <3>1. watch'.simulation = ws /\ cached'.simulation = cached.simulation
      BY <1>1, <2>1, <2>2 DEF StoreTyped, CachedTyped
    <3> QED
      BY <1>1, <3>1
  <2>3. CASE kind = "simulation"
    <3>1. ws \in Seq(Event(SimName, MaybeSimulation)) /\ ws # <<>>
      BY <1>1, <2>1, <2>3 DEF StoreTyped
    <3>2. /\ 1 \in DOMAIN ws /\ e = ws[1]
          /\ \A i \in DOMAIN Tail(ws) : i + 1 \in DOMAIN ws /\ Tail(ws)[i] = ws[i + 1]
      BY <2>3, <3>1
    <3>3. watch'.simulation = Tail(ws)
      BY <1>1, <2>1, <2>3 DEF StoreTyped
    <3> HIDE DEF e
    <3>4. cached'.simulation = [cached.simulation EXCEPT ![e.name] = e.obj]
      BY <1>1, <2>1, <2>3 DEF CachedTyped
    <3>5. e.obj \in G
      BY <1>1, <3>2
    <3>6. \A n \in SimName : cached'.simulation[n] \in {e.obj, cached.simulation[n]}
      BY <1>1, <3>4 DEF CachedTyped
    <3> QED
      BY <1>1, <3>2, <3>3, <3>5, <3>6
  <2> QED
    BY <2>2, <2>3
<1>5. CASE RestartController
  BY <1>5 DEF RestartController, NoEvents
<1>6. CASE UNCHANGED <<watch, cached>>
  BY <1>1, <1>6
<1> QED
  BY <1>2, <1>3, <1>4, <1>5, <1>6, StoreSteps

(* What a step makes of the running reconcile.                             *)
RunMoves ==
  \/ run' \in {run, NoRun}
  \/ run # NoRun /\ run' \in {[run EXCEPT !.latest = FALSE], [run EXCEPT !.clean = FALSE]}
  \/ \E n \in SimName : Reconcile(n)
  \/ StartCall /\ up /\ \E t \in Caller : run' = [run EXCEPT !.stage = "wait", !.thread = t]
  \/ ReturnCall \/ AllCalled
  \/ /\ run.stage \in {"call", "wait"}
     /\ run' \in {CallFailed(run), [CallFailed(run) EXCEPT !.clean = FALSE]}

LEMMA RunSteps ==
  ASSUME [Next]_vars
  PROVE  RunMoves
<1>1. CASE UserEdits \/ \E r \in Request : Api(r)
  <2>1. Outdates
    BY <1>1 DEF UserEdits, Api
  <2> QED
    BY <2>1 DEF Outdates, RunMoves
<1>2. CASE patchStatus \/ StatusUpdateFails \/ RestartController
  BY <1>2 DEF patchStatus, StatusUpdateFails, StatusIsCurrent, WriteStatus, StatusRefused, RunMoves,
              RestartController
<1>3. CASE StartCall \/ CallFails \/ SimulatorStops
  BY <1>3 DEF StartCall, CallFails, SimulatorStops, RunMoves
<1>4. CASE ReturnCall \/ AllCalled \/ \E n \in SimName : StartReconcile(n)
  BY <1>4 DEF StartReconcile, RunMoves
<1>5. CASE /\ UNCHANGED run
  BY <1>5 DEF RunMoves
<1> QED
  BY <1>1, <1>2, <1>3, <1>4, <1>5 DEF vars, controllerVars, Next, Asks, Informer, Deliver, Controller,
     ReconcileStep, Sends, Others, LanThread, Calls, Announcing, SimulatorStarts, Faults

(* What a reconcile begins with.                                           *)
LEMMA ReconcileBegins ==
  ASSUME NEW n \in SimName, Reconcile(n), run' # NoRun
  PROVE  /\ cached.simulation[n] # Absent /\ run'.name = n /\ run'.obj = cached.simulation[n]
         /\ run'.count = 0 /\ run'.thread = Absent
         /\ \/ run'.stage = "status" /\ run'.phase = Failed /\ run'.message # NoReason
            \/ /\ run'.stage = "call" /\ run'.phase = NoPhase /\ run'.message = NoReason
               /\ run'.todo = CANDevices(run'.obj)
<1> DEFINE obj == cached.simulation[n]
           new == [NoRun EXCEPT !.name = n, !.obj = obj, !.latest = ~Undelivered(n)]
<1>1. /\ obj # Absent
      /\ \/ \E message \in {"deviceRef", "not found", "backend"} : run' = Ending(new, Failed, message)
         \/ run' = [new EXCEPT !.stage = "call", !.todo = CANDevices(obj)]
  BY DEF Reconcile
<1>2. ASSUME NEW message \in {"deviceRef", "not found", "backend"}, run' = Ending(new, Failed, message)
      PROVE  /\ run'.name = n /\ run'.obj = obj /\ run'.count = 0 /\ run'.thread = Absent
             /\ run'.stage = "status" /\ run'.phase = Failed /\ run'.message # NoReason
  BY <1>2 DEF Ending, NoRun, NoReason
<1>3. CASE run' = [new EXCEPT !.stage = "call", !.todo = CANDevices(obj)]
  BY <1>1, <1>3 DEF NoRun
<1> QED
  BY <1>1, <1>2, <1>3

LEMMA ObjectsStay ==
  ASSUME KeptInv, [Next]_vars, NEW G, ObjectsIn(G), \A n \in SimName : simulation'[n] \in G
  PROVE  ObjectsIn(G)'
<1>1. /\ \A n \in SimName : cached'.simulation[n] \in G
      /\ \A i \in DOMAIN watch'.simulation : watch'.simulation[i].obj \in G
  BY CopiesStay
<1>2. ASSUME run'.stage # "idle"
      PROVE  run'.obj \in G
  <2>1. DOMAIN run = DOMAIN NoRun
    BY DEF KeptInv, Typed, RunTyped
  <2>2. ASSUME NEW n \in SimName, Reconcile(n), run' # NoRun
        PROVE  run'.obj \in G
    BY <2>2, ReconcileBegins DEF ObjectsIn
  <2>3. run' # NoRun /\ NoRun.stage = "idle"
    BY <1>2 DEF NoRun
  <2>4. (run'.obj = run.obj /\ run.stage # "idle") \/ \E n \in SimName : Reconcile(n)
    <3>1. CASE run # NoRun /\ run' \in {[run EXCEPT !.latest = FALSE], [run EXCEPT !.clean = FALSE]}
      BY <1>2, <2>1, <3>1 DEF NoRun
    <3>2. CASE StartCall /\ up /\ \E t \in Caller : run' = [run EXCEPT !.stage = "wait", !.thread = t]
      BY <2>1, <3>2 DEF StartCall, NoRun
    <3>3. CASE ReturnCall \/ AllCalled
      BY <2>1, <3>3 DEF ReturnCall, AllCalled, Ending, NoRun
    <3>4. CASE /\ run.stage \in {"call", "wait"}
               /\ run' \in {CallFailed(run), [CallFailed(run) EXCEPT !.clean = FALSE]}
      BY <2>1, <3>4 DEF CallFailed, Ending, NoRun
    <3> QED
      BY <1>2, <2>3, <3>1, <3>2, <3>3, <3>4, RunSteps DEF RunMoves
  <2> QED
    BY <2>2, <2>3, <2>4 DEF ObjectsIn
<1> QED
  BY <1>1, <1>2 DEF ObjectsIn

LEMMA QueueStays ==
  ASSUME KeptInv, queue \subseteq SimName, [Next]_vars
  PROVE  queue' \subseteq SimName
<1>1. ASSUME NEW kind \in {"simulation", "device"}, Deliver(kind)
      PROVE  queue' \subseteq SimName
  <2>1. CASE kind = "simulation"
    <3>1. watch.simulation \in Seq(Event(SimName, MaybeSimulation)) /\ watch.simulation # <<>>
      BY <1>1, <2>1 DEF KeptInv, Typed, StoreTyped, Deliver
    <3>2. Head(watch.simulation) \in Event(SimName, MaybeSimulation)
      BY <3>1
    <3>3. Head(watch.simulation).name \in SimName
      BY <3>2 DEF Event
    <3> QED
      BY <1>1, <2>1, <3>3 DEF Deliver
  <2>2. CASE kind = "device"
    BY <1>1, <2>2 DEF Deliver
  <2> QED
    BY <2>1, <2>2
<1>2. CASE patchStatus \/ StatusUpdateFails
  <2>1. run.name \in SimName
    BY <1>2 DEF KeptInv, Typed, RunTyped, patchStatus, StatusUpdateFails
  <2> QED
    BY <1>2, <2>1 DEF patchStatus, StatusUpdateFails, StatusIsCurrent, WriteStatus, StatusRefused
<1>3. CASE \/ UserEdits \/ RestartController
           \/ \E r \in Request : Api(r)
           \/ \E n \in SimName : StartReconcile(n)
  BY <1>3 DEF UserEdits, RestartController, Api, StartReconcile, Reconcile
<1>4. CASE UNCHANGED queue
  BY <1>4
<1> QED
  BY <1>1, <1>2, <1>3, <1>4 DEF vars, controllerVars, Next, Asks, Informer, Controller, ReconcileStep,
     StartCall, ReturnCall, AllCalled, Sends, Others, LanThread, Calls, Announcing, SimulatorStarts,
     SimulatorStops, Faults, CallFails

LEMMA RunStaysSound ==
  ASSUME KeptInv, RunSound, [Next]_vars
  PROVE  RunSound'
<1>1. /\ DOMAIN run = DOMAIN NoRun /\ (run.stage = "idle" => run = NoRun)
      /\ run.stage \in {"idle", "call", "wait", "status"}
      /\ IF run.stage = "wait" THEN run.thread \in Caller ELSE run.thread = Absent
      /\ run.phase = Failed <=> run.message # NoReason
      /\ run.stage \in {"call", "wait"} => run.phase = NoPhase
      /\ queue' \subseteq SimName
  BY QueueStays DEF KeptInv, Typed, RunTyped, RunSound
<1>2. CASE run' = NoRun
  BY <1>1, <1>2 DEF RunSound, NoRun, NoPhase, Failed
<1>3. CASE run' = run
  BY <1>1, <1>3 DEF RunSound
<1>4. CASE run # NoRun /\ run' \in {[run EXCEPT !.latest = FALSE], [run EXCEPT !.clean = FALSE]}
  <2>1. run'.stage = run.stage /\ run'.thread = run.thread /\ run'.phase = run.phase
        /\ run'.message = run.message
    BY <1>1, <1>4 DEF NoRun
  <2> QED
    BY <1>1, <1>4, <2>1 DEF RunSound
<1>5. CASE run' # NoRun /\ \E n \in SimName : Reconcile(n)
  <2>1. /\ run'.thread = Absent
        /\ \/ run'.stage = "status" /\ run'.phase = Failed /\ run'.message # NoReason
           \/ run'.stage = "call" /\ run'.phase = NoPhase /\ run'.message = NoReason
    BY <1>5, ReconcileBegins
  <2> QED
    BY <1>1, <2>1 DEF RunSound, NoPhase, Failed
<1>6. CASE StartCall /\ up /\ \E t \in Caller : run' = [run EXCEPT !.stage = "wait", !.thread = t]
  <2>1. run.stage = "call" /\ run'.stage = "wait" /\ run'.thread \in Caller /\ run'.phase = run.phase
        /\ run'.message = run.message
    BY <1>1, <1>6 DEF StartCall, NoRun
  <2> QED
    BY <1>1, <2>1 DEF RunSound
<1>7. CASE ReturnCall
  <2>1. run.stage = "wait" /\ run'.stage = "call" /\ run'.thread = Absent /\ run'.phase = run.phase
        /\ run'.message = run.message
    BY <1>1, <1>7 DEF ReturnCall, NoRun
  <2> QED
    BY <1>1, <2>1 DEF RunSound
<1>8. CASE AllCalled
  <2>1. run'.stage = "status" /\ run'.thread = Absent /\ run'.phase = Applied /\ run'.message = NoReason
    BY <1>1, <1>8 DEF AllCalled, Ending, NoRun
  <2> QED
    BY <1>1, <2>1 DEF RunSound, Applied, Failed
<1>9. CASE run' \in {CallFailed(run), [CallFailed(run) EXCEPT !.clean = FALSE]}
  <2>1. run'.stage = "status" /\ run'.thread = Absent /\ run'.phase = Failed /\ run'.message = "register"
    BY <1>1, <1>9 DEF CallFailed, Ending, NoRun
  <2> QED
    BY <1>1, <2>1 DEF RunSound, NoReason
<1> QED
  BY <1>2, <1>3, <1>4, <1>5, <1>6, <1>7, <1>8, <1>9, RunSteps DEF RunMoves

(* A simulator that is down does nothing.                                  *)
LEMMA DownStays ==
  ASSUME ServerInv, DownIsQuiet, [ServerStep]_simVars
  PROVE  DownIsQuiet'
<1>1. ASSUME ~up', packet = NoPacket, \A t \in Thread : job[t] = Idle
      PROVE  packet' = NoPacket /\ \A t \in Thread : job'[t] = Idle
  <2>1. packet.todo = <<>> /\ \A t \in Thread : job[t].stage = "idle"
    BY <1>1, IdleJob DEF NoPacket
  <2>2. ~handlePacket /\ ~RepliesLost
    BY <1>1, <2>1 DEF handlePacket, SetBroadcastFlags, removeClient, GetStatus, handleLANX,
       handleCANDetectorPoll, handleCAN, handleCANDeviceSetDescription, handleCANMaintenance,
       handleCANBoosterSetTrackPower, writeMessages, RepliesLost, PacketDone, Asked
  <2>3. \A t \in Thread : /\ ~AnnouncementStep(t)
                          /\ \A c \in Client : ~sendUDP(t, c) /\ ~DatagramLost(t, c)
    BY <2>1 DEF AnnouncementStep, xStatusReply, systemStateReply, subscriberAddrs, sendUDP, DatagramLost
  <2>4. \A t \in Caller : /\ \A on \in BOOLEAN : ~SetTrackPowerAndNotify(t, on)
                          /\ ~BroadcastSystemState(t)
                          /\ \A n, d : ~NotifyCANDeviceDetected(t, n, d)
    BY <1>1 DEF SetTrackPowerAndNotify, BroadcastSystemState, NotifyCANDeviceDetected, Free
  <2>5. ~Start /\ \A c, msgs : ~Receive(c, msgs)
    <3>1. ~Start
      BY <1>1 DEF Start
    <3>2. ASSUME NEW c, NEW msgs, Receive(c, msgs)
          PROVE  FALSE
      <4>1. up /\ up' = up
        BY <3>2 DEF Receive
      <4> QED
        BY <1>1, <4>1, Zenon
    <3> QED
      BY <3>1, <3>2
  <2>6. Stop \/ UNCHANGED simVars
    BY <2>2, <2>3, <2>4, <2>5 DEF ServerStep
  <2> QED
    BY <1>1, <2>6 DEF Stop, simVars, serverVars
<1>2. ASSUME up, ~up'
      PROVE  packet' = NoPacket /\ \A t \in Thread : job'[t] = Idle
  <2>1. /\ \A t \in Thread : ~AnnouncementStep(t)
        /\ \A t \in Thread, c \in Client : ~sendUDP(t, c) /\ ~DatagramLost(t, c)
    BY <1>2 DEF AnnouncementStep, sendUDP, DatagramLost
  <2>2. ~handlePacket /\ ~RepliesLost
    BY <1>2 DEF handlePacket, SetBroadcastFlags, removeClient, GetStatus, handleLANX,
       handleCANDetectorPoll, handleCAN, writeMessages, RepliesLost
  <2>3. \A t \in Caller : /\ \A on \in BOOLEAN : ~SetTrackPowerAndNotify(t, on)
                          /\ ~BroadcastSystemState(t)
                          /\ \A n, d : ~NotifyCANDeviceDetected(t, n, d)
    BY <1>2 DEF SetTrackPowerAndNotify, BroadcastSystemState, NotifyCANDeviceDetected
  <2>4. ~Start /\ ~UNCHANGED simVars /\ \A c, msgs : ~Receive(c, msgs)
    BY <1>2 DEF Start, Receive, simVars, serverVars
  <2>5. Stop
    BY <2>1, <2>2, <2>3, <2>4 DEF ServerStep
  <2> QED
    BY <2>5 DEF Stop
<1> QED
  BY <1>1, <1>2 DEF DownIsQuiet

LEMMA TypesInitially ==
  ASSUME Init
  PROVE  TypesInv
<1>1. /\ KeptInv /\ run = NoRun /\ simulation = [n \in SimName |-> Absent]
      /\ cached = [simulation |-> simulation, device |-> device]
      /\ watch = NoEvents /\ queue \subseteq SimName
      /\ packet = NoPacket /\ job = [t \in Thread |-> Idle]
  BY KeptInitially DEF Init, ControllerInit, ServerInit
<1>2. ObjectsIn(SoundObjects)
  <2>1. Absent \in SoundObjects
    BY DEF SoundObjects, MaybeSimulation
  <2> QED
    BY <1>1, <2>1 DEF ObjectsIn, NoEvents, NoRun
<1>3. RunSound
  BY <1>1 DEF RunSound, NoRun, NoPhase, Failed
<1> QED
  BY <1>1, <1>2, <1>3 DEF TypesInv, DownIsQuiet

LEMMA TypesHold == Spec => []TypesInv
<1>1. Init => TypesInv
  BY TypesInitially
<1>2. SimulatorInv /\ TypesInv /\ [Next]_vars => TypesInv'
  <2> SUFFICES ASSUME SimulatorInv, TypesInv, [Next]_vars
               PROVE  TypesInv'
    OBVIOUS
  <2>1. KeptInv /\ ServerInv /\ [ServerStep]_simVars
    BY SimulatorAsModelled DEF SimulatorInv
  <2>2. \A n \in SimName : simulation'[n] \in SoundObjects
    BY <2>1, SoundWrites
  <2>3. ObjectsIn(SoundObjects)'
    <3>1. PICK G : G = SoundObjects
      OBVIOUS
    <3>2. ObjectsIn(G)'
      BY <2>1, <2>2, <3>1, ObjectsStay DEF TypesInv
    <3> QED
      BY <3>1, <3>2
  <2>4. RunSound' /\ DownIsQuiet'
    BY <2>1, RunStaysSound, DownStays DEF TypesInv
  <2> QED
    BY <2>3, <2>4 DEF TypesInv
<1> QED
  BY <1>1, <1>2, SimulatorHolds, PTL DEF Spec

LEMMA SoundObjectsOK ==
  ASSUME NEW obj \in SoundObjects
  PROVE  ObjectOK(obj)
BY SimulationsAreObjects DEF SoundObjects, MaybeSimulation, ObjectOK

LEMMA SoundJobsOK ==
  ASSUME NEW j \in Jobs, JobSound(j)
  PROVE  JobOK(j)
<1>1. j.fact # NoFact <=> j.fact.says # Absent
  BY JobFields, ServerAssumption DEF Facts, NoFact, Fact
<1> QED
  BY <1>1, JobFields DEF JobSound, JobOK

(* The simulator, the objects, their copies in the controller's cache and  *)
(* the running reconcile hold only what the code can put into them: a      *)
(* status tells of a generation the object has had, with a message exactly *)
(* when it says Failed (patchStatus); a thread knows what it announces, to *)
(* whom, and nothing else (notifyTrackPowerChange, NotifyCANDeviceDetected)*)
(* and a simulator that has stopped is doing nothing.                      *)
THEOREM SimulationTypes == Spec => []TypeOK
<1>1. SimulatorInv /\ TypesInv => TypeOK
  <2> SUFFICES ASSUME SimulatorInv, TypesInv
               PROVE  TypeOK
    OBVIOUS
  <2>1. ServerTyped /\ ObjectsIn(SoundObjects) /\ RunSound /\ DownIsQuiet
    BY DEF SimulatorInv, ServerInv, TypesInv
  <2>2. \A c \in Client : session[c] = Absent \/ session[c] \subseteq Flag
    BY <2>1 DEF ServerTyped
  <2>3. trackPower \in BOOLEAN /\ canDevices \in [NetID -> MaybeDevice]
        /\ due \subseteq Client /\ blurred \subseteq Topic /\ polled \subseteq Client
    BY <2>1 DEF ServerTyped, MaybeDevice
  <2>4. \A t \in Thread : JobOK(job[t])
    BY <2>1, SoundJobsOK DEF ServerTyped
  <2>5. \A n \in SimName : ObjectOK(simulation[n]) /\ ObjectOK(cached.simulation[n])
    BY <2>1, SoundObjectsOK DEF ObjectsIn
  <2>6. run.stage = "wait" <=> run.thread \in Caller
    BY <2>1, ServerAssumption DEF RunSound
  <2> QED
    BY <2>1, <2>2, <2>3, <2>4, <2>5, <2>6 DEF TypeOK, DownIsQuiet, RunSound
<1> QED
  BY <1>1, SimulatorHolds, TypesHold, PTL

-----------------------------------------------------------------------------
(***************************************************************************)
(* What a status counts, as long as every net ID is listed for one kind of *)
(* device only: of two kinds, the one that is registered last is there.    *)
(***************************************************************************)
ListedIn(K) ==
  {o \in MaybeSimulation :
     o # Absent => /\ \A n \in DOMAIN o.detectors : K[n] = Detector
                   /\ \A n \in DOMAIN o.boosters : K[n] = Booster}

AlwaysListedAs(K) == \A n \in SimName : simulation[n] \in ListedIn(K)

(* The calls a reconcile has to make are those that it has not counted,    *)
(* and unless the simulator stopped it knows what it has counted.          *)
CountsOf(r, list, devices) ==
  LET IsThere(call) == IsKind(devices[call.net], call.device.kind) IN
  /\ r.count <= Len(list)
  /\ r.stage \in {"call", "wait"} =>
       /\ Len(r.todo) = Len(list) - r.count
       /\ \A i \in 1 .. Len(r.todo) : r.todo[i] = list[r.count + i]
  /\ r.phase = Applied => r.count = Len(list)
  /\ r.clean => \A i \in 1 .. r.count : IsThere(list[i])
  /\ r.clean /\ r.stage = "wait" => IsThere(list[r.count + 1])

RunCounts == run.stage # "idle" => CountsOf(run, CANDevices(run.obj), canDevices)

(* What the status of an object says that was seen in this generation.     *)
Counted(obj, devices) ==
  LET list == CANDevices(obj) IN
  /\ obj.phase = Applied => obj.applied = Len(list)
  /\ \A i \in 1 .. obj.applied : IsKind(devices[list[i].net], list[i].device.kind)

StatusCounts ==
  \A n \in SimName :
    simulation[n] # Absent /\ simulation[n].observed = simulation[n].generation =>
      /\ simulation[n].applied <= Len(CANDevices(simulation[n]))
      /\ n \notin disturbed => Counted(simulation[n], canDevices)

CountInv(K) == ObjectsIn(ListedIn(K)) /\ RunCounts /\ StatusCounts

LEMMA CallsForKind ==
  ASSUME NEW S \in SUBSET NetID, NEW list \in [S -> Nat], NEW kind \in {Detector, Booster}
  PROVE  /\ CallsFor(list, kind) \in Seq(CANCalls)
         /\ \A i \in DOMAIN CallsFor(list, kind) :
              CallsFor(list, kind)[i].net \in S /\ CallsFor(list, kind)[i].device.kind = kind
<1>1. PICK order : order = InOrder(S)
  OBVIOUS
<1>2. PICK k \in Nat : order \in [1 .. k -> S]
  BY <1>1, InOrderTyped
<1>3. CallsFor(list, kind) =
        [i \in 1 .. k |-> [net |-> order[i], device |-> BuildCANDevice(kind, Default(list[order[i]]))]]
  BY <1>1, <1>2 DEF CallsFor
<1>4. \A at : BuildCANDevice(kind, at).kind = kind
  BY DEF BuildCANDevice, newDetectorDevice, newBoosterDevice, NewDevice, Detector, Booster
<1>5. PICK calls : calls = CallsFor(list, kind)
  OBVIOUS
<1>6. /\ DOMAIN calls = 1 .. k
      /\ \A i \in 1 .. k : /\ calls[i].net = order[i]
                           /\ calls[i].device = BuildCANDevice(kind, Default(list[order[i]]))
  BY <1>3, <1>5
<1>7. \A i \in DOMAIN calls : calls[i].net \in S /\ calls[i].device.kind = kind
  BY <1>2, <1>4, <1>6
<1> QED
  BY <1>5, <1>7, CallsForTyped

LEMMA CallsAsListed ==
  ASSUME NEW K, NEW obj \in Simulations, obj \in ListedIn(K)
  PROVE  /\ CANDevices(obj) \in Seq(CANCalls)
         /\ \A i \in DOMAIN CANDevices(obj) : CANDevices(obj)[i].device.kind = K[CANDevices(obj)[i].net]
<1> DEFINE ds == CallsFor(obj.detectors, Detector)
           bs == CallsFor(obj.boosters, Booster)
<1>1. /\ ds \in Seq(CANCalls) /\ bs \in Seq(CANCalls)
      /\ \A i \in DOMAIN ds : ds[i].net \in DOMAIN obj.detectors /\ ds[i].device.kind = Detector
      /\ \A i \in DOMAIN bs : bs[i].net \in DOMAIN obj.boosters /\ bs[i].device.kind = Booster
  BY SimulationFields, CallsForKind
<1>2. /\ \A n \in DOMAIN obj.detectors : K[n] = Detector
      /\ \A n \in DOMAIN obj.boosters : K[n] = Booster
  BY SimulationsAreObjects DEF ListedIn
<1>3. CANDevices(obj) = ds \o bs
  BY DEF CANDevices
<1> HIDE DEF ds, bs
<1>4. ASSUME NEW i \in DOMAIN (ds \o bs)
      PROVE  (ds \o bs)[i].device.kind = K[(ds \o bs)[i].net]
  <2>1. CASE i <= Len(ds)
    <3>1. i \in DOMAIN ds /\ (ds \o bs)[i] = ds[i]
      BY <1>1, <1>4, <2>1
    <3> QED
      BY <1>1, <1>2, <3>1
  <2>2. CASE ~(i <= Len(ds))
    <3>1. i - Len(ds) \in DOMAIN bs /\ (ds \o bs)[i] = bs[i - Len(ds)]
      BY <1>1, <1>4, <2>2
    <3> QED
      BY <1>1, <1>2, <3>1
  <2> QED
    BY <2>1, <2>2
<1> QED
  BY <1>1, <1>3, <1>4

(* The steps that change the registry.                                     *)
LEMMA RegistrySteps ==
  ASSUME [Next]_vars
  PROVE  \/ canDevices' = canDevices
         \/ handleCAN
         \/ StartCall /\ up /\ UNCHANGED disturbed
         \/ SimulatorStops
<1>1. CASE LanThread
  BY <1>1 DEF LanThread, handlePacket, SetBroadcastFlags, removeClient, GetStatus, handleLANX,
     handleCANDetectorPoll, writeMessages
<1>2. CASE Controller
  BY <1>2 DEF Controller, ReconcileStep, StartCall, ReturnCall, AllCalled, patchStatus, simVars, serverVars
<1>3. CASE \/ \E c \in Client : Sends(c)
           \/ \E t \in Caller : Calls(t)
           \/ \E t \in Thread : Announcing(t)
           \/ SimulatorStarts
  BY <1>3 DEF Sends, Receive, Calls, SetTrackPowerAndNotify, BroadcastSystemState, Announcing,
     ThreadStep, AnnouncementStep, sendUDP, SimulatorStarts, Start
<1>4. CASE Faults
  BY <1>4 DEF Faults, CallFails, StatusUpdateFails, RestartController, RepliesLost, DatagramLost,
     simVars, serverVars
<1>5. CASE \/ UNCHANGED vars
           \/ UserEdits
           \/ \E r \in Request : Asks(r) \/ Api(r)
           \/ \E kind \in {"simulation", "device"} : Informer(kind)
           \/ \E n \in SimName : StartReconcile(n)
  BY <1>5 DEF vars, UserEdits, Asks, Api, Informer, StartReconcile, Reconcile, simVars, serverVars
<1> QED
  BY <1>1, <1>2, <1>3, <1>4, <1>5 DEF Next

LEMMA CommandsKeep ==
  ASSUME NEW devices \in [NetID -> CANDevice \cup {Absent}], NEW n \in NetID, NEW x \in NetID,
         NEW kind, IsKind(devices[x], kind)
  PROVE  /\ IsKind(SetDescription(devices, n)[x], kind)
         /\ \A a \in Nat : IsKind(SetModuleAddress(devices, n, a)[x], kind)
         /\ \A on \in BOOLEAN : IsKind(BoosterSetTrackPower(devices, n, on)[x], kind)
<1>1. PICK d \in CANDevice : d = devices[x] /\ d.kind = kind
  BY DEF IsKind
<1>2. \A e \in CANDevice : e.kind = kind => IsKind(e, kind)
  BY ServerAssumption DEF IsKind
<1>3. SetDescription(devices, n)[x] = d
  BY <1>1, ServerAssumption DEF SetDescription
<1>4. ASSUME NEW a \in Nat
      PROVE  IsKind(SetModuleAddress(devices, n, a)[x], kind)
  <2>1. SetModuleAddress(devices, n, a)[x] \in {d, [d EXCEPT !.at = a]}
    BY <1>1 DEF SetModuleAddress
  <2>2. [d EXCEPT !.at = a] \in CANDevice /\ [d EXCEPT !.at = a].kind = kind
    BY <1>1 DEF CANDevice
  <2> QED
    BY <1>1, <1>2, <2>1, <2>2
<1>5. ASSUME NEW on \in BOOLEAN
      PROVE  IsKind(BoosterSetTrackPower(devices, n, on)[x], kind)
  <2>1. PICK off \in BOOLEAN : off = ~on
    OBVIOUS
  <2>2. BoosterSetTrackPower(devices, n, on)[x] \in {d, [d EXCEPT !.off = off]}
    BY <1>1, <2>1 DEF BoosterSetTrackPower
  <2>3. [d EXCEPT !.off = off] \in CANDevice /\ [d EXCEPT !.off = off].kind = kind
    BY <1>1 DEF CANDevice
  <2> QED
    BY <1>1, <1>2, <2>2, <2>3
<1> QED
  BY <1>1, <1>2, <1>3, <1>4, <1>5

(* The call that begins registers the device it is for.                    *)
LEMMA CallRegisters ==
  ASSUME SimulatorInv, StartCall, up
  PROVE  LET call == Head(run.todo)
         IN  /\ call \in CANCalls /\ run.todo # <<>> /\ run.todo \in Seq(CANCalls)
             /\ canDevices' = [canDevices EXCEPT ![call.net] = call.device]
             /\ IsKind(canDevices'[call.net], call.device.kind)
             /\ \E t \in Caller : run' = [run EXCEPT !.stage = "wait", !.thread = t]
<1>1. /\ run.todo # <<>> /\ run.todo \in Seq(CANCalls)
      /\ canDevices \in [NetID -> CANDevice \cup {Absent}]
  BY DEF StartCall, SimulatorInv, CallsTyped, ServerInv, ServerTyped
<1>2. Head(run.todo) \in CANCalls
  BY <1>1
<1>3. PICK t \in Caller :
        /\ NotifyCANDeviceDetected(t, Head(run.todo).net, Head(run.todo).device)
        /\ run' = [run EXCEPT !.stage = "wait", !.thread = t]
  BY DEF StartCall
<1> DEFINE call == Head(run.todo)
<1>4. canDevices' = [canDevices EXCEPT ![call.net] = call.device]
  BY <1>3 DEF NotifyCANDeviceDetected, RegisterCANDevice
<1>5. call.net \in NetID /\ call.device \in CANDevice
  BY <1>2 DEF CANCalls
<1>6. canDevices'[call.net] = call.device /\ call.device # Absent
  BY <1>1, <1>4, <1>5, ServerAssumption
<1> QED
  BY <1>1, <1>2, <1>3, <1>4, <1>6 DEF IsKind

(* While the simulator lasts, no device of a listed kind is lost.          *)
LEMMA KindsStay ==
  ASSUME SimulatorInv, [Next]_vars, ~SimulatorStops, NEW K,
         run.stage = "call" => \A i \in DOMAIN run.todo : run.todo[i].device.kind = K[run.todo[i].net],
         NEW x \in NetID, IsKind(canDevices[x], K[x])
  PROVE  IsKind(canDevices'[x], K[x])
<1>1. ServerTyped /\ canDevices \in [NetID -> CANDevice \cup {Absent}]
  BY DEF SimulatorInv, ServerInv, ServerTyped
<1>2. CASE handleCAN
  <2>1. CASE handleCANDeviceSetDescription
    <3>1. Message.net \in NetID /\ canDevices' = SetDescription(canDevices, Message.net)
      BY <1>1, <2>1, AskedIs, LanMessages DEF handleCANDeviceSetDescription, RegistryChange
    <3> QED
      BY <1>1, <3>1, CommandsKeep
  <2>2. CASE handleCANMaintenance
    <3>1. /\ Message.net \in NetID /\ Message.addr \in Nat
          /\ canDevices' = SetModuleAddress(canDevices, Message.net, Message.addr)
      BY <1>1, <2>2, AskedIs, LanMessages DEF handleCANMaintenance, RegistryChange
    <3> QED
      BY <1>1, <3>1, CommandsKeep
  <2>3. CASE handleCANBoosterSetTrackPower
    <3>1. /\ Message.net \in NetID /\ Message.on \in BOOLEAN
          /\ canDevices' = BoosterSetTrackPower(canDevices, Message.net, Message.on)
      BY <1>1, <2>3, AskedIs, LanMessages DEF handleCANBoosterSetTrackPower
    <3> QED
      BY <1>1, <3>1, CommandsKeep
  <2> QED
    BY <1>2, <2>1, <2>2, <2>3 DEF handleCAN
<1>3. CASE StartCall /\ up
  <2>1. PICK call \in CANCalls :
          /\ call = Head(run.todo) /\ run.todo # <<>> /\ run.todo \in Seq(CANCalls)
          /\ canDevices' = [canDevices EXCEPT ![call.net] = call.device]
    BY <1>3, CallRegisters
  <2>2. 1 \in DOMAIN run.todo /\ call = run.todo[1]
    BY <2>1
  <2>3. call.net \in NetID /\ call.device \in CANDevice /\ call.device.kind = K[call.net]
    BY <1>3, <2>1, <2>2 DEF CANCalls, StartCall
  <2>4. IsKind(call.device, K[call.net])
    BY <2>3, ServerAssumption DEF IsKind
  <2> QED
    BY <1>1, <2>1, <2>3, <2>4
<1>4. CASE canDevices' = canDevices
  BY <1>4
<1> QED
  BY <1>2, <1>3, <1>4, RegistrySteps

(* A reconcile's copy, its calls, and the kinds they are for.              *)
LEMMA RunCalls ==
  ASSUME KeptInv, CallsTyped, RunCounts, NEW K, ObjectsIn(ListedIn(K)), run.stage # "idle"
  PROVE  /\ run.obj \in Simulations /\ CANDevices(run.obj) \in Seq(CANCalls) /\ run.count \in Nat
         /\ run.todo \in Seq(CANCalls)
         /\ \A i \in DOMAIN CANDevices(run.obj) :
              CANDevices(run.obj)[i].device.kind = K[CANDevices(run.obj)[i].net]
         /\ run.stage = "call" => \A i \in DOMAIN run.todo : run.todo[i].device.kind = K[run.todo[i].net]
<1>1. run.obj \in Simulations /\ run.obj \in ListedIn(K) /\ run.count \in Nat /\ run.todo \in Seq(CANCalls)
  BY DEF KeptInv, Typed, RunTyped, ObjectsIn, CallsTyped
<1>2. PICK list : list = CANDevices(run.obj)
  OBVIOUS
<1>3. list \in Seq(CANCalls) /\ \A i \in DOMAIN list : list[i].device.kind = K[list[i].net]
  BY <1>1, <1>2, CallsAsListed
<1>4. ASSUME run.stage = "call", NEW i \in DOMAIN run.todo
      PROVE  run.todo[i].device.kind = K[run.todo[i].net]
  <2>1. CountsOf(run, list, canDevices) /\ i \in 1 .. Len(run.todo)
    BY <1>1, <1>2, <1>4 DEF RunCounts
  <2>2. /\ Len(run.todo) = Len(list) - run.count /\ run.todo[i] = list[run.count + i]
    BY <1>4, <2>1 DEF CountsOf
  <2>3. run.count + i \in DOMAIN list
    BY <1>1, <1>3, <2>1, <2>2
  <2> QED
    BY <1>3, <2>2, <2>3
<1> QED
  BY <1>1, <1>2, <1>3, <1>4

(* What is there stays there.                                              *)
LEMMA CallsStayThere ==
  ASSUME SimulatorInv, RunCounts, [Next]_vars, ~SimulatorStops, NEW K, ObjectsIn(ListedIn(K)),
         NEW call \in CANCalls, call.device.kind = K[call.net],
         IsKind(canDevices[call.net], call.device.kind)
  PROVE  IsKind(canDevices'[call.net], call.device.kind)
<1>1. call.net \in NetID
  BY DEF CANCalls
<1>2. run.stage = "call" => \A i \in DOMAIN run.todo : run.todo[i].device.kind = K[run.todo[i].net]
  BY RunCalls DEF SimulatorInv
<1> QED
  BY <1>1, <1>2, KindsStay

LEMMA CountsStay ==
  ASSUME SimulatorInv, RunSound, RunCounts, [Next]_vars, NEW K, ObjectsIn(ListedIn(K))
  PROVE  RunCounts'
<1> SUFFICES ASSUME run'.stage # "idle"
             PROVE  CountsOf(run', CANDevices(run'.obj), canDevices')
  BY DEF RunCounts
<1>1. /\ DOMAIN run = DOMAIN NoRun /\ NoRun.stage = "idle" /\ (run.stage = "idle" => run = NoRun)
      /\ run.stage \in {"call", "wait"} => run.phase = NoPhase
  BY DEF SimulatorInv, KeptInv, Typed, RunTyped, RunSound, NoRun
<1>2. PICK list : list = CANDevices(run.obj)
  OBVIOUS
<1>3. run.stage # "idle" =>
        /\ list \in Seq(CANCalls) /\ run.count \in Nat /\ run.todo \in Seq(CANCalls)
        /\ \A i \in DOMAIN list : list[i].device.kind = K[list[i].net]
        /\ CountsOf(run, list, canDevices)
  BY <1>2, RunCalls DEF SimulatorInv, RunCounts
<1>4. SimulatorStops => ~run'.clean
  BY <1>1 DEF SimulatorStops, NoRun
<1>5. ASSUME run.stage # "idle", run'.clean => run.clean, NEW i \in DOMAIN list,
             run.clean => IsKind(canDevices[list[i].net], list[i].device.kind)
      PROVE  run'.clean => IsKind(canDevices'[list[i].net], list[i].device.kind)
  <2>1. PICK call \in CANCalls : call = list[i] /\ call.device.kind = K[call.net]
    BY <1>3, <1>5
  <2> QED
    BY <1>4, <1>5, <2>1, CallsStayThere
(* A reconcile that goes on with what it has counted.                      *)
<1>6. ASSUME run.stage # "idle", run'.obj = run.obj, run'.count = run.count, run'.todo = run.todo,
             run'.clean => run.clean, run'.phase \in {run.phase, Failed},
             run'.stage = run.stage \/ run'.stage = "status"
      PROVE  CountsOf(run', CANDevices(run'.obj), canDevices')
  <2>1. \A i \in 1 .. run.count :
          run'.clean => IsKind(canDevices'[list[i].net], list[i].device.kind)
    BY <1>3, <1>5, <1>6 DEF CountsOf
  <2>2. run'.clean /\ run'.stage = "wait" =>
          IsKind(canDevices'[list[run.count + 1].net], list[run.count + 1].device.kind)
    <3>1. ASSUME run'.clean, run'.stage = "wait"
          PROVE  run.count + 1 \in DOMAIN list
      <4>1. run.stage = "wait" /\ run.todo # <<>>
        BY <1>6, <3>1 DEF SimulatorInv, CallsTyped
      <4> QED
        BY <1>3, <4>1 DEF CountsOf
    <3> QED
      BY <1>3, <1>5, <1>6, <3>1 DEF CountsOf
  <2>3. run'.phase = Applied => run.count = Len(list)
    BY <1>3, <1>6 DEF CountsOf, Failed, Applied
  <2>4. CANDevices(run'.obj) = list
    BY <1>2, <1>6
  <2> QED
    BY <1>3, <1>6, <2>1, <2>2, <2>3, <2>4 DEF CountsOf
<1>7. CASE run' \in {run, NoRun}
  BY <1>1, <1>6, <1>7
<1>8. CASE run # NoRun /\ run' \in {[run EXCEPT !.latest = FALSE], [run EXCEPT !.clean = FALSE]}
  <2>1. /\ run.stage # "idle" /\ run'.obj = run.obj /\ run'.count = run.count /\ run'.todo = run.todo
        /\ (run'.clean => run.clean) /\ run'.phase = run.phase /\ run'.stage = run.stage
    BY <1>1, <1>8 DEF NoRun
  <2> QED
    BY <1>6, <2>1
<1>9. CASE /\ run.stage \in {"call", "wait"}
           /\ run' \in {CallFailed(run), [CallFailed(run) EXCEPT !.clean = FALSE]}
  <2>1. /\ run.stage # "idle" /\ run'.obj = run.obj /\ run'.count = run.count /\ run'.todo = run.todo
        /\ (run'.clean => run.clean) /\ run'.phase = Failed /\ run'.stage = "status"
    BY <1>1, <1>9 DEF CallFailed, Ending, NoRun
  <2> QED
    BY <1>6, <2>1
<1>10. ASSUME NEW n \in SimName, Reconcile(n)
       PROVE  CountsOf(run', CANDevices(run'.obj), canDevices')
  <2>1. /\ run'.count = 0 /\ run'.obj = cached.simulation[n] /\ run'.obj # Absent
        /\ \/ run'.stage = "status" /\ run'.phase = Failed
           \/ run'.stage = "call" /\ run'.phase = NoPhase /\ run'.todo = CANDevices(run'.obj)
    BY <1>1, <1>10, ReconcileBegins
  <2>2. run'.obj \in Simulations
    BY <2>1 DEF SimulatorInv, KeptInv, Typed, CachedTyped, MaybeSimulation
  <2>3. PICK new \in Seq(CANCalls) : new = CANDevices(run'.obj)
    BY <2>2, DeviceCallsTyped
  <2>4. /\ Len(new) \in Nat /\ run'.phase # Applied
        /\ run'.stage \in {"call", "wait"} => run'.todo = new
        /\ run'.stage # "wait"
    <3>1. Len(new) \in Nat
      BY <2>3
    <3>2. run'.phase # Applied
      BY <2>1 DEF Applied, Failed, NoPhase
    <3> QED
      BY <2>1, <2>3, <3>1, <3>2
  <2>5. CountsOf(run', new, canDevices')
    BY <2>1, <2>4 DEF CountsOf
  <2> QED
    BY <2>3, <2>5
<1>11. CASE StartCall /\ up /\ \E t \in Caller : run' = [run EXCEPT !.stage = "wait", !.thread = t]
  <2>1. /\ run.stage = "call" /\ run'.stage = "wait" /\ run'.obj = run.obj /\ run'.count = run.count
        /\ run'.todo = run.todo /\ run'.clean = run.clean /\ run'.phase = run.phase
    BY <1>1, <1>11 DEF StartCall, NoRun
  <2>2. \A i \in 1 .. run.count :
          run'.clean => IsKind(canDevices'[list[i].net], list[i].device.kind)
    BY <1>3, <1>5, <2>1 DEF CountsOf
  <2>3. /\ run.todo # <<>>
        /\ IsKind(canDevices'[Head(run.todo).net], Head(run.todo).device.kind)
    BY <1>11, CallRegisters
  <2>4. Head(run.todo) = list[run.count + 1]
    <3>1. 1 \in 1 .. Len(run.todo) /\ Head(run.todo) = run.todo[1]
      BY <1>3, <2>1, <2>3
    <3> QED
      BY <1>3, <2>1, <3>1 DEF CountsOf
  <2>5. CANDevices(run'.obj) = list
    BY <1>2, <2>1
  <2> QED
    BY <1>1, <1>3, <2>1, <2>2, <2>3, <2>4, <2>5 DEF CountsOf, NoPhase, Applied
<1>12. CASE ReturnCall
  <2>1. /\ run.stage = "wait" /\ run'.stage = "call" /\ run'.obj = run.obj
        /\ run'.count = run.count + 1 /\ run'.todo = Tail(run.todo) /\ run'.clean = run.clean
        /\ run'.phase = run.phase /\ UNCHANGED simVars
    BY <1>1, <1>12 DEF ReturnCall, NoRun
  <2>2. /\ run.todo \in Seq(CANCalls) /\ run.todo # <<>> /\ canDevices' = canDevices
    BY <2>1 DEF SimulatorInv, CallsTyped, simVars, serverVars
  <2>3. /\ Len(Tail(run.todo)) = Len(run.todo) - 1
        /\ \A i \in 1 .. Len(Tail(run.todo)) : i + 1 \in 1 .. Len(run.todo) /\ Tail(run.todo)[i] = run.todo[i + 1]
    BY <2>2
  <2>4. Len(run.todo) = Len(list) - run.count /\ Len(run.todo) \in Nat \ {0} /\ Len(list) \in Nat
    BY <1>3, <2>1, <2>2 DEF CountsOf
  <2>5. \A i \in 1 .. Len(run'.todo) : run'.todo[i] = list[run'.count + i]
    <3> SUFFICES ASSUME NEW i \in 1 .. Len(Tail(run.todo))
                 PROVE  Tail(run.todo)[i] = list[run.count + 1 + i]
      BY <2>1
    <3>1. run.todo[i + 1] = list[run.count + (i + 1)]
      BY <1>3, <2>1, <2>3 DEF CountsOf
    <3>2. run.count + (i + 1) = run.count + 1 + i
      BY <1>3, <2>1, <2>4
    <3> QED
      BY <2>3, <3>1, <3>2
  <2>6. \A i \in 1 .. run'.count :
          run'.clean => IsKind(canDevices'[list[i].net], list[i].device.kind)
    <3>1. \A i \in 1 .. run.count + 1 : i \in 1 .. run.count \/ i = run.count + 1
      BY <1>3, <2>1
    <3> QED
      BY <1>3, <2>1, <2>2, <3>1 DEF CountsOf
  <2>7. CANDevices(run'.obj) = list
    BY <1>2, <2>1
  <2>8. run'.count <= Len(list) /\ Len(run'.todo) = Len(list) - run'.count
    BY <1>3, <2>1, <2>3, <2>4
  <2>9. run'.phase # Applied
    BY <1>1, <2>1 DEF NoPhase, Applied
  <2> QED
    BY <2>1, <2>5, <2>6, <2>7, <2>8, <2>9 DEF CountsOf
<1>13. CASE AllCalled
  <2>1. /\ run.stage = "call" /\ run.todo = <<>> /\ run'.stage = "status" /\ run'.obj = run.obj
        /\ run'.count = run.count /\ run'.clean = run.clean /\ UNCHANGED simVars
    BY <1>1, <1>13 DEF AllCalled, Ending, NoRun
  <2>2. run.count = Len(list) /\ canDevices' = canDevices
    BY <1>3, <2>1 DEF CountsOf, simVars, serverVars
  <2>3. CANDevices(run'.obj) = list
    BY <1>2, <2>1
  <2> QED
    BY <1>3, <2>1, <2>2, <2>3 DEF CountsOf
<1> QED
  BY <1>7, <1>8, <1>9, <1>10, <1>11, <1>12, <1>13, RunSteps DEF RunMoves

LEMMA DisturbedSteps ==
  ASSUME KeptInv, [Next]_vars
  PROVE  disturbed' = disturbed \/ Told \/ SimulatorStops
<1>1. CASE patchStatus \/ StatusUpdateFails
  BY <1>1, StatusWrites DEF patchStatus, StatusUpdateFails
<1>2. CASE ~patchStatus /\ ~StatusUpdateFails
  BY <1>2 DEF vars, controllerVars, Next, UserEdits, Asks, Api, Informer, Deliver, StartReconcile,
     Reconcile, Controller, ReconcileStep, StartCall, ReturnCall, AllCalled, Sends, Others, LanThread,
     Calls, Announcing, SimulatorStarts, Faults, CallFails, RestartController
<1> QED
  BY <1>1, <1>2

LEMMA StatusesStayTrue ==
  ASSUME SimulatorInv, TypesInv, [Next]_vars, NEW K, CountInv(K)
  PROVE  StatusCounts'
<1>1. KeptInv /\ RunCounts /\ ObjectsIn(ListedIn(K)) /\ StatusCounts
  BY DEF SimulatorInv, CountInv
<1> SUFFICES ASSUME NEW n \in SimName, simulation'[n] # Absent,
                    simulation'[n].observed = simulation'[n].generation
             PROVE  /\ simulation'[n].applied <= Len(CANDevices(simulation'[n]))
                    /\ n \notin disturbed' => Counted(simulation'[n], canDevices')
  BY DEF StatusCounts
<1>2. CASE simulation'[n] = simulation[n] /\ ~(Told /\ n = run.name)
  <2>1. PICK obj : obj = simulation[n]
    OBVIOUS
  <2>2. PICK list : list = CANDevices(obj)
    OBVIOUS
  <2>3. obj \in Simulations /\ obj \in ListedIn(K)
    BY <1>1, <1>2, <2>1 DEF KeptInv, Typed, StoreTyped, MaybeSimulation, ObjectsIn
  <2>4. /\ list \in Seq(CANCalls) /\ obj.applied \in Nat /\ obj.applied <= Len(list)
        /\ \A i \in DOMAIN list : list[i].device.kind = K[list[i].net]
    BY <1>1, <1>2, <2>1, <2>2, <2>3, CallsAsListed, SimulationFields DEF StatusCounts
  <2>5. ASSUME n \notin disturbed'
        PROVE  Counted(obj, canDevices')
    <3>1. ~SimulatorStops
      BY <2>5 DEF SimulatorStops
    <3>2. n \notin disturbed
      BY <1>1, <1>2, <2>5, <3>1, DisturbedSteps DEF Told, ToldOf
    <3>3. Counted(obj, canDevices)
      BY <1>1, <1>2, <2>1, <3>2 DEF StatusCounts
    <3>4. ASSUME NEW i \in 1 .. obj.applied
          PROVE  IsKind(canDevices'[list[i].net], list[i].device.kind)
      <4>1. i \in DOMAIN list
        BY <2>4, <3>4
      <4>2. PICK call \in CANCalls : call = list[i] /\ call.device.kind = K[call.net]
        BY <2>4, <4>1
      <4>3. IsKind(canDevices[call.net], call.device.kind)
        BY <2>2, <3>3, <3>4, <4>2 DEF Counted
      <4> QED
        BY <1>1, <3>1, <4>2, <4>3, CallsStayThere
    <3> QED
      BY <2>2, <3>3, <3>4 DEF Counted
  <2> QED
    BY <1>2, <2>1, <2>2, <2>4, <2>5
<1>3. CASE Renewed(simulation'[n])
  BY <1>3 DEF Renewed
<1>4. CASE Respecified(simulation[n], simulation'[n])
  <2>1. simulation[n] \in SoundObjects /\ simulation[n] # Absent
    BY <1>4 DEF TypesInv, ObjectsIn, Respecified
  <2>2. simulation[n] \in Simulations /\ simulation[n].observed <= simulation[n].generation
    BY <2>1 DEF SoundObjects, MaybeSimulation
  <2>3. simulation[n].observed \in Nat /\ simulation[n].generation \in Nat
    BY <2>2, SimulationFields
  <2>4. simulation'[n].observed = simulation[n].observed
        /\ simulation'[n].generation = simulation[n].generation + 1
    BY <1>4 DEF Respecified
  <2>5. simulation[n].observed # simulation[n].generation + 1
    BY <2>2, <2>3
  <2> QED
    BY <2>4, <2>5
<1>5. CASE Told /\ n = run.name
  <2>1. PICK new : new = StatusOf(run)
    OBVIOUS
  <2>2. PICK list : list = CANDevices(run.obj)
    OBVIOUS
  <2>3. /\ simulation'[n] = new /\ run.stage = "status" /\ ToldOf(run) /\ canDevices' = canDevices
    BY <1>5, <2>1 DEF Told, simVars, serverVars
  <2>4. run.obj \in Simulations /\ CountsOf(run, list, canDevices)
    BY <1>1, <2>2, <2>3 DEF KeptInv, Typed, RunTyped, RunCounts
  <2>5. DOMAIN run.obj = Fields
    BY <2>4, SimulationFields
  <2>6. /\ new.detectors = run.obj.detectors /\ new.boosters = run.obj.boosters
        /\ new.phase = run.phase /\ new.applied = run.count
    BY <2>1, <2>5 DEF StatusOf, Fields
  <2>7. CANDevices(new) = list
    BY <2>2, <2>6 DEF CANDevices
  <2>8. n \notin disturbed' => run.clean
    BY <1>5, <2>3 DEF ToldOf
  <2>9. /\ run.count <= Len(list) /\ (run.phase = Applied => run.count = Len(list))
        /\ run.clean => \A i \in 1 .. run.count : IsKind(canDevices[list[i].net], list[i].device.kind)
    BY <2>4 DEF CountsOf
  <2>10. n \notin disturbed' => Counted(new, canDevices')
    BY <2>3, <2>6, <2>7, <2>8, <2>9 DEF Counted
  <2> QED
    BY <2>3, <2>6, <2>7, <2>9, <2>10
<1> QED
  BY <1>1, <1>2, <1>3, <1>4, <1>5, StepWrites

(* The status of a simulation counts what is registered on the simulator,  *)
(* and all of it when it says Applied, whatever calls failed (applyCAN-    *)
(* Devices) and however old the reconcile's copy was (patchStatus), for    *)
(* any number of simulations and devices, unless the simulator has stopped *)
(* since, and as long as no net ID is listed as a detector here and as a   *)
(* booster there: RegisterCANDevice would then leave the last one only.    *)
THEOREM CountsAlwaysTrue ==
  ASSUME NEW K
  PROVE  Spec /\ []AlwaysListedAs(K) => []AppliedCountIsTrue
<1>1. Init /\ AlwaysListedAs(K) => CountInv(K)
  <2> SUFFICES ASSUME Init, AlwaysListedAs(K)
               PROVE  CountInv(K)
    OBVIOUS
  <2>1. /\ run = NoRun /\ simulation = [n \in SimName |-> Absent]
        /\ cached = [simulation |-> simulation, device |-> device] /\ watch = NoEvents
    BY DEF Init, ControllerInit
  <2>2. ObjectsIn(ListedIn(K))
    BY <2>1 DEF ObjectsIn, AlwaysListedAs, NoEvents, NoRun
  <2>3. RunCounts /\ StatusCounts
    BY <2>1 DEF RunCounts, StatusCounts, NoRun
  <2> QED
    BY <2>2, <2>3 DEF CountInv
<1>2. SimulatorInv /\ TypesInv /\ CountInv(K) /\ [Next]_vars /\ AlwaysListedAs(K)' => CountInv(K)'
  <2> SUFFICES ASSUME SimulatorInv, TypesInv, CountInv(K), [Next]_vars, AlwaysListedAs(K)'
               PROVE  CountInv(K)'
    OBVIOUS
  <2>1. KeptInv /\ RunSound /\ RunCounts /\ ObjectsIn(ListedIn(K))
    BY DEF SimulatorInv, TypesInv, CountInv
  <2>2. PICK G : G = ListedIn(K)
    OBVIOUS
  <2>3. ObjectsIn(G)'
    BY <2>1, <2>2, ObjectsStay DEF AlwaysListedAs
  <2>4. RunCounts' /\ StatusCounts'
    BY <2>1, CountsStay, StatusesStayTrue
  <2> QED
    BY <2>2, <2>3, <2>4 DEF CountInv
<1>3. CountInv(K) => AppliedCountIsTrue
  BY DEF CountInv, StatusCounts, Counted, AppliedCountIsTrue
<1> QED
  BY <1>1, <1>2, <1>3, SimulatorHolds, TypesHold, PTL DEF Spec

=============================================================================
