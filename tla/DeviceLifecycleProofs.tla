------------------------ MODULE DeviceLifecycleProofs ------------------------
(***************************************************************************)
(* The life of devices, for any devices and names, any edits, faults and   *)
(* restarts, and any lag of the operator's cache: nothing a deleted device *)
(* had is left behind, no edit is lost, and what the operator and the      *)
(* gateway write into one status does not contradict itself.               *)
(***************************************************************************)
EXTENDS DeviceLifecycle, TLAPS, SequenceTheorems

Shown(list, type) == type \in DOMAIN list /\ list[type].status

Lists ==
  {list \in UNION {[T -> Condition] : T \in SUBSET ConditionTypes} :
     ~(Shown(list, DeviceReachable) /\ Shown(list, Degraded))}

Phases == {"", Pending, Starting, Running, Failed, Stopping}

Statuses ==
  [phase : Phases, gateway : BOOLEAN, simulator : BOOLEAN, service : BOOLEAN, observed : Nat,
   conditions : Lists, lastSeen : {"never", "answered", "silent"}]

Objects ==
  {obj \in [backend : {Hardware, Simulator}, finalizer : BOOLEAN, deleting : BOOLEAN,
            generation : Nat, status : Statuses] : obj.deleting => obj.finalizer}

MaybeObject == Objects \cup {Absent}

Events == [name : Device, obj : MaybeObject]

-----------------------------------------------------------------------------
(***************************************************************************)
(* The inductive invariant.                                                *)
(***************************************************************************)
StoreTyped ==
  /\ device \in [Device -> MaybeObject] /\ cached \in [Device -> MaybeObject]
  /\ watch \in Seq(Events)

(* The latest undelivered event of a device says what it is; without one   *)
(* the copy does.                                                          *)
Latest(d, i) ==
  /\ watch[i] = [name |-> d, obj |-> device[d]]
  /\ \A j \in DOMAIN watch : j > i => watch[j].name # d

Synced ==
  \A d \in Device :
    IF d \in Lagging THEN \E i \in DOMAIN watch : Latest(d, i) ELSE cached[d] = device[d]

Held(obj)   == obj # Absent /\ obj.finalizer
Marked(obj) == obj # Absent /\ obj.deleting

(* What a copy tells of the device there is now: one that has its          *)
(* finalizer and is not marked keeps its finalizer until the copy is gone, *)
(* and one that is marked is not held again unmarked before.               *)
Follows(now, old) ==
  /\ Held(old) /\ ~Marked(old) => Held(now)
  /\ Marked(old) /\ Held(now) => Marked(now)

CopiesFollow ==
  \A d \in Device :
    /\ Follows(device[d], cached[d])
    /\ \A i \in DOMAIN watch : watch[i].name = d => Follows(device[d], watch[i].obj)

StoreInv == StoreTyped /\ Synced /\ CopiesFollow

(* The running reconcile.                                                  *)
Inputs ==
  {in \in [gateway : States \cup {Absent}, simulator : States \cup {Absent}, service : BOOLEAN,
           phase : Phases] : in.phase = Running => HasReplica(in.gateway)}

DropSteps == {"dropSimulator", "dropService"}

StepsOf(backend, deleting) ==
  IF deleting THEN {"stopping", "dropGateway", "dropAccount", "unfinalize"} \cup DropSteps
  ELSE {"account", "role", "binding", "gateway", "status"}
         \cup IF backend = Simulator THEN {"service", "simulator"} ELSE DropSteps

Runs ==
  {r \in [step : StepsOf(Simulator, TRUE) \cup StepsOf(Simulator, FALSE) \cup StepsOf(Hardware, FALSE),
          name : Device, backend : {Hardware, Simulator}, trace : BOOLEAN, in : Inputs] :
     r.step \in StepsOf(r.backend, r.in.phase = Stopping)}

RunTyped == run = Idle \/ run \in Runs

RunOf(d) == run # Idle /\ run.name = d

(* A reconcile that deploys works for a device that has its finalizer, one *)
(* that deletes for a device that is marked, or gone, or made anew and not *)
(* reconciled since.                                                       *)
RunHeld ==
  run # Idle =>
    LET obj == device[run.name] IN
    IF Deleting THEN Held(obj) => Marked(obj) ELSE Held(obj)

(* What the reconcile has done so far.                                     *)
Reached == run.step = "status" /\ run.in.phase \in {Starting, Running}

Removed(mine) ==
  /\ run.step \in {"dropAccount", "dropSimulator", "dropService", "unfinalize"} => mine.gateway = Absent
  /\ run.step \in {"dropSimulator", "dropService", "unfinalize"} => ~mine.account
  /\ run.step \in {"dropService", "unfinalize"} => mine.simulator = Absent
  /\ run.step = "unfinalize" => ~mine.service

Made(mine) ==
  /\ run.backend = Simulator =>
       /\ run.step \in {"simulator", "gateway"} \/ Reached => mine.service
       /\ run.step = "gateway" \/ Reached => mine.simulator # Absent
  /\ run.backend = Hardware =>
       /\ run.step \in {"dropService", "gateway"} \/ Reached => mine.simulator = Absent
       /\ run.step = "gateway" \/ Reached => ~mine.service
  /\ Reached =>
       /\ mine.gateway # Absent
       /\ mine.gateway.content = GatewayContent(run.name, run.backend, run.trace)

RunProgress == run # Idle => IF Deleting THEN Removed(Mine) ELSE Made(Mine)

(* Whoever changes what a reconcile works from queues the device again, or *)
(* leaves an event that will.                                              *)
RunFresh ==
  run # Idle /\ run.name \notin Lagging /\ run.name \notin queue =>
    LET obj == device[run.name] IN
    IF Deleting THEN obj # Absent => obj.deleting
    ELSE /\ obj # Absent /\ ~obj.deleting
         /\ obj.backend = run.backend /\ trace = run.trace

RunInv == RunTyped /\ RunHeld /\ RunProgress /\ RunFresh

(* The workloads and the gateways.                                         *)
Workloads ==
  [account : BOOLEAN, gateway : DeploymentsOf(Contents) \cup {Absent}, service : BOOLEAN,
   simulator : DeploymentsOf(BOOLEAN) \cup {Absent}]

WorkTyped == workload \in [Name -> Workloads] /\ trace \in BOOLEAN

NoneHeld(n) == \A d \in Named(n) : ~Held(device[d])

Kept == \A n \in Name : NoneHeld(n) => workload[n] = NoWorkload

Trackers ==
  {t \in [failures : Nat, successes : Nat, reachable : BOOLEAN, degraded : BOOLEAN] :
     ~(t.reachable /\ t.degraded)}

Patches == {NoPatch} \cup [pending : {TRUE}, rewrites : BOOLEAN, conditions : Lists]

Pods ==
  [content : Contents, session : {"started", "dialing", "bridged"}, tracker : Trackers,
   patch : Patches]

PodsTyped ==
  /\ pod \in [Name -> Pods \cup {Absent}]
  /\ rbac \subseteq Device /\ answers \subseteq Device /\ queue \subseteq Device

(* A device with neither an event under way nor a place in the queue nor a *)
(* reconcile of its own is as its last reconcile left it.                  *)
OneDevicePerName == \A d, e \in Device : NameOf[d] = NameOf[e] => d = e

Busy(d) == d \in Lagging \/ d \in queue \/ RunOf(d)

Settled(d) ==
  device[d] # Absent =>
    /\ device[d].finalizer /\ ~device[d].deleting
    /\ device[d].status.observed = device[d].generation
    /\ device[d].status.phase = Running => Shown(device[d].status.conditions, GatewayReady)
    /\ OneDevicePerName /\ device[d].status.phase \in {Starting, Running} => Deployed(d)

RestIsSettled == \A d \in Device : Busy(d) \/ Settled(d)

Inv == StoreInv /\ RunInv /\ WorkTyped /\ Kept /\ PodsTyped /\ RestIsSettled

-----------------------------------------------------------------------------
(***************************************************************************)
(* Objects.                                                                *)
(***************************************************************************)
LEMMA ObjectFields ==
  ASSUME NEW obj \in Objects
  PROVE  /\ obj = [backend |-> obj.backend, finalizer |-> obj.finalizer, deleting |-> obj.deleting,
                   generation |-> obj.generation, status |-> obj.status]
         /\ obj.backend \in {Hardware, Simulator} /\ obj.finalizer \in BOOLEAN
         /\ obj.deleting \in BOOLEAN /\ obj.generation \in Nat /\ obj.status \in Statuses
         /\ obj.deleting => obj.finalizer
BY DEF Objects

LEMMA FieldsMakeObject ==
  ASSUME NEW backend \in {Hardware, Simulator}, NEW finalizer \in BOOLEAN, NEW deleting \in BOOLEAN,
         NEW generation \in Nat, NEW status \in Statuses, deleting => finalizer
  PROVE  [backend |-> backend, finalizer |-> finalizer, deleting |-> deleting,
          generation |-> generation, status |-> status] \in Objects
BY DEF Objects

LEMMA ListTypes ==
  ASSUME NEW list \in Lists
  PROVE  \E T \in SUBSET ConditionTypes : list \in [T -> Condition]
BY DEF Lists

LEMMA ObjectsAreDevices ==
  /\ Absent \notin Objects
  /\ \A obj \in Objects : IsDevice(obj)
<1>1. ASSUME NEW obj \in Objects PROVE IsDevice(obj)
  <2>1. obj.status \in Statuses /\ obj.status.conditions \in Lists
    BY ObjectFields DEF Statuses
  <2>2. PICK T \in SUBSET ConditionTypes : obj.status.conditions \in [T -> Condition]
    BY <2>1, ListTypes
  <2>3. obj.status \in StatusesOf(T)
    BY <2>1, <2>2 DEF Statuses, StatusesOf, Phases
  <2>4. obj \in DevicesOf(T)
    BY <2>3, ObjectFields DEF DevicesOf
  <2> QED
    BY <2>4 DEF IsDevice
<1> QED
  BY <1>1, AbsentAssumption

LEMMA SetConditionList ==
  ASSUME NEW T \in SUBSET ConditionTypes, NEW list \in [T -> Condition],
         NEW type \in ConditionTypes, NEW status \in BOOLEAN, NEW generation \in Nat
  PROVE  LET new == SetCondition(list, type, status, generation)
         IN  /\ new \in [T \cup {type} -> Condition]
             /\ \A t : Shown(new, t) <=> IF t = type THEN status ELSE Shown(list, t)
<1> DEFINE new == SetCondition(list, type, status, generation)
<1>1. DOMAIN list = T
  OBVIOUS
<1>2. new = [t \in T \cup {type} |->
               IF t = type THEN [status |-> status, generation |-> generation] ELSE list[t]]
  BY <1>1 DEF SetCondition
<1>3. [status |-> status, generation |-> generation] \in Condition
  BY DEF Condition
<1> HIDE DEF new
<1>4. new \in [T \cup {type} -> Condition]
  BY <1>2, <1>3
<1>5. ASSUME NEW t PROVE Shown(new, t) <=> IF t = type THEN status ELSE Shown(list, t)
  BY <1>1, <1>2 DEF Shown
<1> QED
  BY <1>4, <1>5 DEF new

(* The operator's condition is not one of the gateway's two.               *)
LEMMA GatewayReadyList ==
  ASSUME NEW list \in Lists, NEW status \in BOOLEAN, NEW generation \in Nat
  PROVE  LET new == SetCondition(list, GatewayReady, status, generation)
         IN  new \in Lists /\ (Shown(new, GatewayReady) <=> status)
<1>1. PICK T \in SUBSET ConditionTypes : list \in [T -> Condition]
  BY ListTypes
<1> DEFINE new == SetCondition(list, GatewayReady, status, generation)
<1>2. GatewayReady \in ConditionTypes
  BY DEF ConditionTypes
<1>3. /\ new \in [T \cup {GatewayReady} -> Condition]
      /\ \A t : Shown(new, t) <=> IF t = GatewayReady THEN status ELSE Shown(list, t)
  BY <1>1, <1>2, SetConditionList
<1>4. ~(Shown(list, DeviceReachable) /\ Shown(list, Degraded))
  BY DEF Lists
<1>5. GatewayReady # DeviceReachable /\ GatewayReady # Degraded
  BY DEF GatewayReady, DeviceReachable, Degraded
<1> HIDE DEF new
<1>6. ~(Shown(new, DeviceReachable) /\ Shown(new, Degraded))
  BY <1>3, <1>4, <1>5
<1>7. T \cup {GatewayReady} \in SUBSET ConditionTypes
  BY <1>2
<1>8. new \in Lists
  BY <1>3, <1>6, <1>7 DEF Lists
<1> QED
  BY <1>3, <1>8 DEF new

(* The gateway sets both of its conditions from one tracker.               *)
LEMMA BothConditionsList ==
  ASSUME NEW T \in SUBSET ConditionTypes, NEW list \in [T -> Condition], NEW reachable \in BOOLEAN,
         NEW degraded \in BOOLEAN, ~(reachable /\ degraded), NEW generation \in Nat
  PROVE  SetCondition(SetCondition(list, DeviceReachable, reachable, generation),
                      Degraded, degraded, generation) \in Lists
<1>1. DeviceReachable \in ConditionTypes /\ Degraded \in ConditionTypes /\ DeviceReachable # Degraded
  BY DEF ConditionTypes, DeviceReachable, Degraded
<1>2. PICK once : once = SetCondition(list, DeviceReachable, reachable, generation)
  OBVIOUS
<1>3. PICK U \in SUBSET ConditionTypes :
        /\ once \in [U -> Condition]
        /\ Shown(once, DeviceReachable) <=> reachable
  <2>1. /\ once \in [T \cup {DeviceReachable} -> Condition]
        /\ Shown(once, DeviceReachable) <=> reachable
    BY <1>1, <1>2, SetConditionList
  <2> QED
    BY <1>1, <2>1
<1>4. PICK new : new = SetCondition(once, Degraded, degraded, generation)
  OBVIOUS
<1>5. /\ new \in [U \cup {Degraded} -> Condition]
      /\ \A u : Shown(new, u) <=> IF u = Degraded THEN degraded ELSE Shown(once, u)
  BY <1>1, <1>3, <1>4, SetConditionList
<1>6. ~(Shown(new, DeviceReachable) /\ Shown(new, Degraded))
  BY <1>1, <1>3, <1>5
<1>7. U \cup {Degraded} \in SUBSET ConditionTypes
  BY <1>1
<1>8. new \in Lists
  BY <1>5, <1>6, <1>7 DEF Lists
<1> QED
  BY <1>2, <1>4, <1>8

LEMMA HealthList ==
  ASSUME NEW obj \in Objects, NEW t \in Trackers
  PROVE  HealthConditions(obj, t) \in Lists
<1>1. /\ obj.status.conditions \in Lists /\ obj.generation \in Nat
      /\ t.reachable \in BOOLEAN /\ t.degraded \in BOOLEAN /\ ~(t.reachable /\ t.degraded)
  BY ObjectFields DEF Statuses, Trackers
<1>2. PICK T \in SUBSET ConditionTypes : obj.status.conditions \in [T -> Condition]
  BY <1>1, ListTypes
<1> QED
  BY <1>1, <1>2, BothConditionsList DEF HealthConditions

LEMMA OperatorStatusSound ==
  ASSUME NEW obj \in Objects, NEW in \in Inputs
  PROVE  OperatorStatus(obj, in) \in Statuses
<1> DEFINE list == SetCondition(obj.status.conditions, GatewayReady, HasReplica(in.gateway), obj.generation)
<1>1. obj.status \in Statuses /\ obj.status.conditions \in Lists /\ obj.generation \in Nat
  BY ObjectFields DEF Statuses
<1>2. list \in Lists
  <2>1. HasReplica(in.gateway) \in BOOLEAN
    BY DEF HasReplica
  <2> QED
    BY <1>1, <2>1, GatewayReadyList
<1>3. OperatorStatus(obj, in) =
        [obj.status EXCEPT !.phase = in.phase, !.gateway = (in.gateway # Absent),
           !.simulator = (in.simulator # Absent), !.service = in.service,
           !.observed = obj.generation, !.conditions = list]
  BY <1>1 DEF OperatorStatus, Statuses
<1> HIDE DEF list
<1>4. in.phase \in Phases /\ in.service \in BOOLEAN
  BY DEF Inputs
<1> QED
  BY <1>1, <1>2, <1>3, <1>4 DEF Statuses

LEMMA PatchedStatus ==
  ASSUME NEW now \in Statuses, NEW base, NEW new \in Statuses
  PROVE  MergePatch(now, base, new) \in Statuses
BY DEF MergePatch, Statuses

(* Writes of a status leave the rest alone.                                *)
LEMMA StatusWrite ==
  ASSUME NEW obj \in Objects, NEW status \in Statuses
  PROVE  LET new == [obj EXCEPT !.status = status]
         IN  new \in Objects /\ new.finalizer = obj.finalizer /\ new.deleting = obj.deleting
<1> DEFINE new == [obj EXCEPT !.status = status]
<1>1. new = [backend |-> obj.backend, finalizer |-> obj.finalizer, deleting |-> obj.deleting,
             generation |-> obj.generation, status |-> status]
  BY ObjectFields
<1> HIDE DEF new
<1>2. new \in Objects
  BY <1>1, ObjectFields, FieldsMakeObject
<1> QED
  BY <1>1, <1>2 DEF new
(* A write that neither gives a device its finalizer nor takes it away,    *)
(* and leaves the mark of one that is deleted.                             *)
KeepsHold(new, old) ==
  /\ Held(new) <=> Held(old)
  /\ Held(old) /\ Marked(old) => Marked(new)

LEMMA StatusWriteKeeps ==
  ASSUME NEW obj \in Objects, NEW status \in Statuses
  PROVE  LET new == [obj EXCEPT !.status = status]
         IN  new \in Objects /\ KeepsHold(new, obj)
BY StatusWrite, ObjectsAreDevices DEF KeepsHold, Held, Marked

LEMMA PatchKeeps ==
  ASSUME NEW obj \in Objects, NEW latest \in Objects, NEW in \in Inputs
  PROVE  LET new == [obj EXCEPT !.status = MergePatch(@, latest.status, OperatorStatus(latest, in))]
         IN  new \in Objects /\ KeepsHold(new, obj)
<1>1. MergePatch(obj.status, latest.status, OperatorStatus(latest, in)) \in Statuses
  BY ObjectFields, OperatorStatusSound, PatchedStatus
<1>2. [obj EXCEPT !.status = MergePatch(@, latest.status, OperatorStatus(latest, in))] =
      [obj EXCEPT !.status = MergePatch(obj.status, latest.status, OperatorStatus(latest, in))]
  OBVIOUS
<1> QED
  BY <1>1, <1>2, StatusWriteKeeps

LEMMA SessionKeeps ==
  ASSUME NEW obj \in Objects, NEW seen \in {"answered", "silent"}
  PROVE  LET new == [obj EXCEPT !.status.lastSeen = seen]
         IN  new \in Objects /\ KeepsHold(new, obj)
<1> DEFINE status == [obj.status EXCEPT !.lastSeen = seen]
<1>1. status \in Statuses
  BY ObjectFields DEF Statuses
<1>2. [obj EXCEPT !.status.lastSeen = seen] = [obj EXCEPT !.status = status]
  OBVIOUS
<1> HIDE DEF status
<1> QED
  BY <1>1, <1>2, StatusWriteKeeps

LEMMA HealthKeeps ==
  ASSUME NEW obj \in Objects, NEW list \in Lists, NEW rewrites \in BOOLEAN
  PROVE  LET new == [obj EXCEPT !.status.conditions = IF rewrites THEN list ELSE @]
         IN  new \in Objects /\ KeepsHold(new, obj)
<1> DEFINE status == [obj.status EXCEPT !.conditions = IF rewrites THEN list ELSE @]
<1>1. status \in Statuses
  BY ObjectFields DEF Statuses
<1>2. [obj EXCEPT !.status.conditions = IF rewrites THEN list ELSE @] = [obj EXCEPT !.status = status]
  OBVIOUS
<1> HIDE DEF status
<1> QED
  BY <1>1, <1>2, StatusWriteKeeps

LEMMA MarkKeeps ==
  ASSUME NEW obj \in Objects, obj.finalizer
  PROVE  LET new == [obj EXCEPT !.deleting = TRUE, !.generation = @ + 1]
         IN  new \in Objects /\ KeepsHold(new, obj)
<1> DEFINE new == [obj EXCEPT !.deleting = TRUE, !.generation = @ + 1]
<1>1. PICK g \in Nat : g = obj.generation + 1
  BY ObjectFields
<1>2. PICK yes \in BOOLEAN : yes = TRUE
  OBVIOUS
<1>3. new \in Objects /\ new.finalizer /\ new.deleting
  <2>1. new = [obj EXCEPT !.deleting = yes, !.generation = g]
    BY <1>1, <1>2
  <2> HIDE DEF new
  <2> QED
    BY <1>2, <2>1 DEF Objects
<1> HIDE DEF new
<1>4. KeepsHold(new, obj)
  BY <1>3, ObjectsAreDevices DEF KeepsHold, Held, Marked
<1> QED
  BY <1>3, <1>4 DEF new

LEMMA EditKeeps ==
  ASSUME NEW obj \in Objects
  PROVE  LET new == [obj EXCEPT !.backend = IF @ = Hardware THEN Simulator ELSE Hardware,
                                !.generation = @ + 1]
         IN  new \in Objects /\ KeepsHold(new, obj)
<1> DEFINE new == [obj EXCEPT !.backend = IF @ = Hardware THEN Simulator ELSE Hardware,
                              !.generation = @ + 1]
<1>1. PICK g \in Nat : g = obj.generation + 1
  BY ObjectFields
<1>2. PICK b \in {Hardware, Simulator} : b = IF obj.backend = Hardware THEN Simulator ELSE Hardware
  OBVIOUS
<1>3. new = [obj EXCEPT !.backend = b, !.generation = g]
  BY <1>1, <1>2
<1> HIDE DEF new
<1>4. new \in Objects /\ new.finalizer = obj.finalizer /\ new.deleting = obj.deleting
  BY <1>3 DEF Objects
<1>5. KeepsHold(new, obj)
  BY <1>4, ObjectsAreDevices DEF KeepsHold, Held, Marked
<1> QED
  BY <1>4, <1>5 DEF new

LEMMA CreatedDevice ==
  ASSUME NEW backend \in {Hardware, Simulator}
  PROVE  NewDevice(backend) \in Objects /\ ~Held(NewDevice(backend))
<1>1. NewStatus \in Statuses
  <2>1. <<>> \in [{} -> Condition] /\ {} \in SUBSET ConditionTypes
    OBVIOUS
  <2>2. ~Shown(<<>>, Degraded)
    BY DEF Shown
  <2>3. <<>> \in Lists
    BY <2>1, <2>2 DEF Lists
  <2> QED
    BY <2>3 DEF NewStatus, Statuses, Phases
<1>2. NewDevice(backend) \in Objects
  BY <1>1, FieldsMakeObject DEF NewDevice
<1>3. ~NewDevice(backend).finalizer
  BY DEF NewDevice
<1> QED
  BY <1>2, <1>3 DEF Held

LEMMA FinalizerAdded ==
  ASSUME NEW obj \in Objects
  PROVE  LET new == [obj EXCEPT !.finalizer = TRUE]
         IN  new \in Objects /\ Held(new) /\ (Marked(new) <=> Marked(obj))
<1> DEFINE new == [obj EXCEPT !.finalizer = TRUE]
<1>1. PICK yes \in BOOLEAN : yes = TRUE
  OBVIOUS
<1>2. new \in Objects /\ new.finalizer /\ new.deleting = obj.deleting
  <2>1. new = [obj EXCEPT !.finalizer = yes]
    BY <1>1
  <2> HIDE DEF new
  <2> QED
    BY <1>1, <2>1 DEF Objects
<1> HIDE DEF new
<1> QED
  BY <1>2, ObjectsAreDevices DEF Held, Marked, new

-----------------------------------------------------------------------------
(***************************************************************************)
(* The store, its watch and the operator's copies.                         *)
(***************************************************************************)
LEMMA PublishedLast ==
  ASSUME StoreTyped, NEW d \in Device, NEW new \in MaybeObject, Put(d, new)
  PROVE  /\ device' = [device EXCEPT ![d] = new] /\ device' \in [Device -> MaybeObject]
         /\ watch' \in Seq(Events) /\ Len(watch) \in Nat
         /\ DOMAIN watch = 1 .. Len(watch) /\ DOMAIN watch' = 1 .. Len(watch) + 1
         /\ \A i \in 1 .. Len(watch) : watch'[i] = watch[i]
         /\ watch'[Len(watch) + 1] = [name |-> d, obj |-> new]
         /\ Lagging' = Lagging \cup {d}
<1> DEFINE e == [name |-> d, obj |-> new]
<1>1. watch \in Seq(Events) /\ e \in Events /\ watch' = Append(watch, e)
      /\ device' = [device EXCEPT ![d] = new]
  BY DEF StoreTyped, Events, Put, Publish
<1> HIDE DEF e
<1>2. /\ watch' \in Seq(Events) /\ Len(watch) \in Nat
      /\ DOMAIN watch = 1 .. Len(watch) /\ DOMAIN watch' = 1 .. Len(watch) + 1
      /\ \A i \in 1 .. Len(watch) : watch'[i] = watch[i]
      /\ watch'[Len(watch) + 1] = e
  BY <1>1
<1>3. device' \in [Device -> MaybeObject]
  BY <1>1 DEF StoreTyped
<1>4. e.name = d
  BY DEF e
<1>5. Lagging' = Lagging \cup {d}
  <2>1. ASSUME NEW x \in Lagging' PROVE x \in Lagging \cup {d}
    <3>1. PICK i \in 1 .. Len(watch) + 1 : x = watch'[i].name
      BY <1>2, <2>1 DEF Lagging
    <3>2. CASE i = Len(watch) + 1
      BY <1>2, <1>4, <3>1, <3>2
    <3>3. CASE i # Len(watch) + 1
      <4>1. i \in 1 .. Len(watch)
        BY <1>2, <3>1, <3>3
      <4> QED
        BY <1>2, <3>1, <4>1 DEF Lagging
    <3> QED
      BY <3>2, <3>3
  <2>2. ASSUME NEW x \in Lagging PROVE x \in Lagging'
    <3>1. PICK i \in 1 .. Len(watch) : x = watch[i].name
      BY <1>2, <2>2 DEF Lagging
    <3>2. i \in DOMAIN watch' /\ x = watch'[i].name
      BY <1>2, <3>1
    <3> QED
      BY <3>2 DEF Lagging
  <2>3. d \in Lagging'
    <3>1. Len(watch) + 1 \in DOMAIN watch' /\ watch'[Len(watch) + 1].name = d
      BY <1>2, <1>4
    <3> QED
      BY <3>1 DEF Lagging
  <2> QED
    BY <2>1, <2>2, <2>3
<1> QED
  BY <1>1, <1>2, <1>3, <1>5 DEF e

(* A write that every copy of the device may still precede.                *)
LEMMA PutKeepsStore ==
  ASSUME StoreInv, NEW d \in Device, NEW new \in MaybeObject, Put(d, new), UNCHANGED cached,
         Follows(new, cached[d]),
         \A i \in DOMAIN watch : watch[i].name = d => Follows(new, watch[i].obj)
  PROVE  StoreInv'
<1> DEFINE n == Len(watch)
<1>1. /\ device' = [device EXCEPT ![d] = new] /\ device' \in [Device -> MaybeObject]
      /\ watch' \in Seq(Events) /\ n \in Nat
      /\ DOMAIN watch = 1 .. n /\ DOMAIN watch' = 1 .. n + 1
      /\ \A i \in 1 .. n : watch'[i] = watch[i]
      /\ watch'[n + 1] = [name |-> d, obj |-> new]
      /\ Lagging' = Lagging \cup {d}
  BY PublishedLast DEF StoreInv
<1>2. device \in [Device -> MaybeObject] /\ cached' = cached
  BY DEF StoreInv, StoreTyped
<1>3. device'[d] = new /\ \A e \in Device \ {d} : device'[e] = device[e]
  BY <1>1, <1>2
<1>4. watch'[n + 1].name = d /\ watch'[n + 1].obj = new
  BY <1>1
<1> HIDE DEF n
<1>5. StoreTyped'
  BY <1>1, <1>2 DEF StoreInv, StoreTyped
<1>6. Synced'
  <2> SUFFICES ASSUME NEW e \in Device
               PROVE  IF e \in Lagging' THEN \E i \in DOMAIN watch' : Latest(e, i)'
                      ELSE cached'[e] = device'[e]
    BY DEF Synced
  <2>1. CASE e = d
    <3>1. watch'[n + 1] = [name |-> e, obj |-> device'[e]]
      BY <1>1, <1>3, <2>1
    <3>2. n + 1 \in DOMAIN watch' /\ \A j \in DOMAIN watch' : ~(j > n + 1)
      BY <1>1
    <3> QED
      BY <1>1, <2>1, <3>1, <3>2 DEF Latest
  <2>2. CASE e # d /\ e \in Lagging
    <3>1. PICK i \in DOMAIN watch : Latest(e, i)
      BY <2>2 DEF StoreInv, Synced
    <3>2. i \in DOMAIN watch' /\ watch'[i] = [name |-> e, obj |-> device'[e]]
      BY <1>1, <1>3, <2>2, <3>1 DEF Latest
    <3>3. \A j \in DOMAIN watch' : j > i => watch'[j].name # e
      <4> TAKE j \in DOMAIN watch'
      <4>1. CASE j \in 1 .. n
        BY <1>1, <3>1, <4>1 DEF Latest
      <4>2. CASE j = n + 1
        BY <1>4, <2>2, <4>2
      <4> QED
        BY <1>1, <4>1, <4>2
    <3> QED
      BY <1>1, <2>2, <3>2, <3>3 DEF Latest
  <2>3. CASE e # d /\ e \notin Lagging
    BY <1>1, <1>2, <1>3, <2>3 DEF StoreInv, Synced
  <2> QED
    BY <2>1, <2>2, <2>3
<1>7. CopiesFollow'
  <2> SUFFICES ASSUME NEW e \in Device
               PROVE  /\ Follows(device'[e], cached'[e])
                      /\ \A i \in DOMAIN watch' :
                           watch'[i].name = e => Follows(device'[e], watch'[i].obj)
    BY DEF CopiesFollow, Follows, Held, Marked
  <2>1. Follows(new, new)
    BY DEF Follows
  <2>2. Follows(device'[e], cached'[e])
    BY <1>2, <1>3 DEF StoreInv, CopiesFollow
  <2>3. ASSUME NEW i \in DOMAIN watch', watch'[i].name = e PROVE Follows(device'[e], watch'[i].obj)
    <3>1. CASE i \in 1 .. n
      <4>1. i \in DOMAIN watch /\ watch'[i] = watch[i]
        BY <1>1, <3>1
      <4> QED
        BY <1>3, <2>3, <4>1 DEF StoreInv, CopiesFollow
    <3>2. CASE i = n + 1
      BY <1>3, <1>4, <2>1, <2>3, <3>2
    <3> QED
      BY <1>1, <3>1, <3>2
  <2> QED
    BY <2>2, <2>3
<1> QED
  BY <1>5, <1>6, <1>7 DEF StoreInv

LEMMA WriteKeepsStore ==
  ASSUME StoreInv, NEW d \in Device, NEW new \in MaybeObject, Put(d, new), UNCHANGED cached,
         KeepsHold(new, device[d])
  PROVE  StoreInv'
<1>1. ASSUME NEW old, Follows(device[d], old) PROVE Follows(new, old)
  BY <1>1 DEF Follows, KeepsHold
<1>2. /\ Follows(new, cached[d])
      /\ \A i \in DOMAIN watch : watch[i].name = d => Follows(new, watch[i].obj)
  BY <1>1 DEF StoreInv, CopiesFollow
<1> QED
  BY <1>2, PutKeepsStore

(* An event is delivered: one copy is newer, the others are as they were.  *)
LEMMA DeliverKeepsStore ==
  ASSUME StoreInv, Deliver
  PROVE  /\ StoreInv'
         /\ Head(watch).name \in Device /\ Lagging \subseteq Lagging' \cup {Head(watch).name}
<1> DEFINE h == Head(watch)
           n == Len(watch)
<1>1. watch \in Seq(Events) /\ watch # <<>> /\ watch' = Tail(watch) /\ device' = device
      /\ cached' = [cached EXCEPT ![h.name] = h.obj]
  BY DEF StoreInv, StoreTyped, Deliver
<1>2. /\ h \in Events /\ h = watch[1] /\ watch' \in Seq(Events)
      /\ n \in Nat \ {0} /\ DOMAIN watch = 1 .. n /\ DOMAIN watch' = 1 .. n - 1
      /\ \A i \in 1 .. n - 1 : watch'[i] = watch[i + 1]
  BY <1>1
<1>3. h.name \in Device /\ h.obj \in MaybeObject
  BY <1>2 DEF Events
<1>4. /\ device \in [Device -> MaybeObject] /\ cached' \in [Device -> MaybeObject]
      /\ cached'[h.name] = h.obj /\ \A e \in Device \ {h.name} : cached'[e] = cached[e]
  BY <1>1, <1>3 DEF StoreInv, StoreTyped
<1> HIDE DEF h, n
<1>5. StoreTyped'
  BY <1>1, <1>2, <1>4 DEF StoreTyped
<1>6. ASSUME NEW i \in DOMAIN watch PROVE i = 1 \/ (i - 1 \in DOMAIN watch' /\ watch'[i - 1] = watch[i])
  <2>1. CASE i # 1
    <3>1. i - 1 \in 1 .. n - 1
      BY <1>2, <2>1
    <3>2. watch'[i - 1] = watch[(i - 1) + 1] /\ (i - 1) + 1 = i
      BY <1>2, <3>1
    <3> QED
      BY <1>2, <3>1, <3>2
  <2> QED
    BY <2>1
<1>7. ASSUME NEW i \in DOMAIN watch' PROVE i + 1 \in DOMAIN watch /\ watch'[i] = watch[i + 1]
  BY <1>2
<1>8. Lagging \subseteq Lagging' \cup {h.name} /\ Lagging' \subseteq Lagging
  <2>1. ASSUME NEW x \in Lagging PROVE x \in Lagging' \cup {h.name}
    <3>1. PICK i \in DOMAIN watch : x = watch[i].name
      BY <2>1 DEF Lagging
    <3>2. CASE i = 1
      BY <1>2, <3>1, <3>2
    <3>3. CASE i - 1 \in DOMAIN watch' /\ watch'[i - 1] = watch[i]
      BY <3>1, <3>3 DEF Lagging
    <3> QED
      BY <1>6, <3>2, <3>3
  <2>2. ASSUME NEW x \in Lagging' PROVE x \in Lagging
    <3>1. PICK i \in DOMAIN watch' : x = watch'[i].name
      BY <2>2 DEF Lagging
    <3> QED
      BY <1>7, <3>1 DEF Lagging
  <2> QED
    BY <2>1, <2>2
<1>9. Synced'
  <2> SUFFICES ASSUME NEW e \in Device
               PROVE  IF e \in Lagging' THEN \E i \in DOMAIN watch' : Latest(e, i)'
                      ELSE cached'[e] = device'[e]
    BY DEF Synced
  <2>1. CASE e \in Lagging
    <3>1. PICK i \in DOMAIN watch : Latest(e, i)
      BY <2>1 DEF StoreInv, Synced
    <3>2. CASE i = 1
      <4>1. e = h.name /\ h.obj = device[e]
        BY <1>2, <3>1, <3>2 DEF Latest
      <4>2. e \notin Lagging'
        <5>1. SUFFICES ASSUME NEW j \in DOMAIN watch', watch'[j].name = e PROVE FALSE
          BY DEF Lagging
        <5>2. j + 1 \in DOMAIN watch /\ j + 1 > 1 /\ watch[j + 1].name = e
          BY <1>2, <1>7, <5>1
        <5> QED
          BY <3>1, <3>2, <5>2 DEF Latest
      <4> QED
        BY <1>1, <1>4, <4>1, <4>2
    <3>3. CASE i # 1
      <4>1. i - 1 \in DOMAIN watch' /\ watch'[i - 1] = watch[i]
        BY <1>6, <3>3
      <4>2. watch'[i - 1] = [name |-> e, obj |-> device'[e]]
        BY <1>1, <3>1, <4>1 DEF Latest
      <4>3. \A j \in DOMAIN watch' : j > i - 1 => watch'[j].name # e
        <5> TAKE j \in DOMAIN watch'
        <5>1. j + 1 \in DOMAIN watch /\ watch'[j] = watch[j + 1] /\ (j > i - 1 => j + 1 > i)
          BY <1>2, <1>7
        <5> QED
          BY <3>1, <5>1 DEF Latest
      <4>4. e \in Lagging'
        <5>1. watch'[i - 1].name = e
          BY <4>2
        <5> QED
          BY <4>1, <5>1 DEF Lagging
      <4> QED
        BY <4>1, <4>2, <4>3, <4>4 DEF Latest
    <3> QED
      BY <3>2, <3>3
  <2>2. CASE e \notin Lagging
    <3>1. cached[e] = device[e] /\ e \notin Lagging' /\ 1 \in DOMAIN watch
      BY <1>2, <1>8, <2>2 DEF StoreInv, Synced
    <3>2. e # h.name
      BY <1>2, <2>2, <3>1 DEF Lagging
    <3> QED
      BY <1>1, <1>4, <3>1, <3>2
  <2> QED
    BY <2>1, <2>2
<1>10. CopiesFollow'
  <2> SUFFICES ASSUME NEW e \in Device
               PROVE  /\ Follows(device[e], cached'[e])
                      /\ \A i \in DOMAIN watch' :
                           watch'[i].name = e => Follows(device[e], watch'[i].obj)
    BY <1>1 DEF CopiesFollow, Follows, Held, Marked
  <2>1. /\ Follows(device[e], cached[e])
        /\ \A i \in DOMAIN watch : watch[i].name = e => Follows(device[e], watch[i].obj)
    BY DEF StoreInv, CopiesFollow
  <2>2. Follows(device[e], cached'[e])
    <3>1. 1 \in DOMAIN watch
      BY <1>2
    <3>2. e = h.name => Follows(device[e], h.obj)
      BY <1>2, <2>1, <3>1
    <3> QED
      BY <1>4, <2>1, <3>2
  <2>3. \A i \in DOMAIN watch' : watch'[i].name = e => Follows(device[e], watch'[i].obj)
    BY <1>7, <2>1
  <2> QED
    BY <2>2, <2>3
<1> QED
  BY <1>3, <1>5, <1>8, <1>9, <1>10 DEF StoreInv, h

LEMMA RestartKeepsStore ==
  ASSUME StoreInv, cached' = device, watch' = <<>>, device' = device
  PROVE  StoreInv' /\ Lagging' = {}
<1>1. watch' \in Seq(Events) /\ DOMAIN watch' = {}
  OBVIOUS
<1>2. StoreTyped'
  BY <1>1 DEF StoreInv, StoreTyped
<1>3. Lagging' = {}
  BY <1>1 DEF Lagging
<1>4. \A d \in Device : Follows(device[d], device[d])
  BY DEF Follows
<1>5. Synced' /\ CopiesFollow'
  BY <1>1, <1>3, <1>4 DEF Synced, CopiesFollow, Follows, Held, Marked
<1> QED
  BY <1>2, <1>3, <1>5 DEF StoreInv

-----------------------------------------------------------------------------
(***************************************************************************)
(* The running reconcile and the tracker, step by step.                    *)
(***************************************************************************)
LEMMA RunFields ==
  ASSUME NEW r \in Runs
  PROVE  /\ r # Idle /\ r.name \in Device /\ r.backend \in {Hardware, Simulator} /\ r.trace \in BOOLEAN
         /\ r.in \in Inputs /\ r.step \in StepsOf(r.backend, r.in.phase = Stopping)
<1>1. r.step \in StepsOf(Simulator, TRUE) \cup StepsOf(Simulator, FALSE) \cup StepsOf(Hardware, FALSE)
      /\ r.name \in Device /\ r.backend \in {Hardware, Simulator} /\ r.trace \in BOOLEAN
      /\ r.in \in Inputs /\ r.step \in StepsOf(r.backend, r.in.phase = Stopping)
  BY DEF Runs
<1>2. r.step # "idle"
  BY <1>1 DEF StepsOf, DropSteps
<1> QED
  BY <1>1, <1>2 DEF Idle

LEMMA StepsKnown ==
  ASSUME NEW backend \in {Hardware, Simulator}, NEW deleting \in BOOLEAN,
         NEW step \in StepsOf(backend, deleting)
  PROVE  step \in StepsOf(Simulator, TRUE) \cup StepsOf(Simulator, FALSE) \cup StepsOf(Hardware, FALSE)
BY DEF StepsOf, Hardware, Simulator

(* A step goes on to one that its kind of reconcile has.                   *)
LEMMA NextStep ==
  ASSUME NEW r \in Runs, NEW step, step \in StepsOf(r.backend, r.in.phase = Stopping),
         NEW s, s = [r EXCEPT !.step = step]
  PROVE  /\ s \in Runs /\ s # Idle /\ s.step = step
         /\ s.name = r.name /\ s.backend = r.backend /\ s.trace = r.trace /\ s.in = r.in
<1>1. step \in StepsOf(Simulator, TRUE) \cup StepsOf(Simulator, FALSE) \cup StepsOf(Hardware, FALSE)
  BY StepsKnown, RunFields
<1>2. /\ s.step = step /\ s.name = r.name /\ s.backend = r.backend /\ s.trace = r.trace /\ s.in = r.in
  BY DEF Runs
<1>3. s \in [step : StepsOf(Simulator, TRUE) \cup StepsOf(Simulator, FALSE) \cup StepsOf(Hardware, FALSE),
             name : Device, backend : {Hardware, Simulator}, trace : BOOLEAN, in : Inputs]
  BY <1>1 DEF Runs
<1>4. s \in Runs
  BY <1>2, <1>3 DEF Runs
<1> QED
  BY <1>2, <1>4, RunFields

StepWith(r, step, in) == [r EXCEPT !.step = step, !.in = in]

LEMMA NextStepWith ==
  ASSUME NEW r \in Runs, NEW in \in Inputs, NEW step, step \in StepsOf(r.backend, in.phase = Stopping)
  PROVE  LET s == StepWith(r, step, in)
         IN  /\ s \in Runs /\ s # Idle /\ s.step = step
             /\ s.name = r.name /\ s.backend = r.backend /\ s.trace = r.trace /\ s.in = in
<1> DEFINE s == StepWith(r, step, in)
<1>1. step \in StepsOf(Simulator, TRUE) \cup StepsOf(Simulator, FALSE) \cup StepsOf(Hardware, FALSE)
  BY StepsKnown, RunFields
<1>2. /\ s.step = step /\ s.name = r.name /\ s.backend = r.backend /\ s.trace = r.trace /\ s.in = in
  BY DEF Runs, StepWith
<1>3. s \in [step : StepsOf(Simulator, TRUE) \cup StepsOf(Simulator, FALSE) \cup StepsOf(Hardware, FALSE),
             name : Device, backend : {Hardware, Simulator}, trace : BOOLEAN, in : Inputs]
  BY <1>1 DEF Runs, StepWith
<1> HIDE DEF s
<1>4. s \in Runs
  BY <1>2, <1>3 DEF Runs
<1> QED
  BY <1>2, <1>4, RunFields DEF s

LEMMA PhaseOfStates ==
  ASSUME NEW gateway \in States, NEW simulator \in States \cup {Absent}
  PROVE  /\ computePhase(gateway, simulator) \in {Running, Starting, Failed}
         /\ computePhase(gateway, simulator) = Running => HasReplica(gateway)
<1>1. gateway # Absent
  BY AbsentAssumption DEF States
<1> QED
  BY <1>1 DEF computePhase, States, Running, Starting, Failed

LEMMA TrackerSound ==
  ASSUME NEW t \in Trackers, NEW success \in BOOLEAN
  PROVE  record(t, success) \in Trackers
<1>1. FailuresNeeded \in Nat /\ SuccessesNeeded \in Nat
  BY HealthCheckAssumption DEF FailuresNeeded, SuccessesNeeded
<1>2. /\ t.failures \in Nat /\ t.successes \in Nat /\ t.reachable \in BOOLEAN /\ t.degraded \in BOOLEAN
      /\ ~(t.reachable /\ t.degraded)
  BY DEF Trackers
<1>3. RecordSuccess(t) \in Trackers
  <2>1. UpTo(t.successes + 1, SuccessesNeeded) \in Nat
    BY <1>1, <1>2 DEF UpTo
  <2> QED
    BY <1>2, <2>1 DEF RecordSuccess, Trackers
<1>4. RecordFailure(t) \in Trackers
  <2>1. UpTo(t.failures + 1, FailuresNeeded) \in Nat
    BY <1>1, <1>2 DEF UpTo
  <2> QED
    BY <1>2, <2>1 DEF RecordFailure, Trackers
<1> QED
  BY <1>3, <1>4 DEF record

-----------------------------------------------------------------------------
(***************************************************************************)
(* What steps leave alone.                                                 *)
(***************************************************************************)
LEMMA StoreUnchanged ==
  ASSUME StoreInv, UNCHANGED <<device, cached, watch>>
  PROVE  StoreInv' /\ Lagging' = Lagging
BY DEF StoreInv, StoreTyped, Synced, Latest, CopiesFollow, Follows, Held, Marked, Lagging

LEMMA SettledStays ==
  ASSUME NEW d \in Device, Settled(d), device'[d] = device[d], trace' = trace,
         OneDevicePerName => (Deployed(d) => Deployed(d)')
  PROVE  Settled(d)'
BY DEF Settled, OneDevicePerName

LEMMA KeptStays ==
  ASSUME Kept, UNCHANGED <<device, workload>>
  PROVE  Kept'
BY DEF Kept, NoneHeld, Held, Named

LEMMA RestStays ==
  ASSUME RestIsSettled, UNCHANGED <<device, workload, trace>>,
         \A d \in Device : Busy(d) => Busy(d)'
  PROVE  RestIsSettled'
BY SettledStays DEF RestIsSettled, Deployed

LEMMA RunStays ==
  ASSUME RunInv, UNCHANGED <<device, watch, workload, trace, run>>, queue \subseteq queue'
  PROVE  RunInv'
BY DEF RunInv, RunTyped, RunHeld, Held, Marked, RunProgress, Removed, Made, Mine, Reached, Deleting,
       RunFresh, Lagging

(* A write that keeps the hold on the device.                              *)
LEMMA WriteKeepsOthers ==
  ASSUME StoreInv, WorkTyped, Kept, RestIsSettled,
         NEW d \in Device, NEW new \in MaybeObject, Put(d, new), KeepsHold(new, device[d]),
         UNCHANGED <<cached, workload, trace>>, queue \subseteq queue',
         \A e \in Device : RunOf(e) => RunOf(e)' \/ e = d
  PROVE  StoreInv' /\ WorkTyped' /\ Kept' /\ RestIsSettled'
<1>1. StoreInv'
  BY WriteKeepsStore
<1>2. /\ device \in [Device -> MaybeObject] /\ device' = [device EXCEPT ![d] = new]
      /\ Lagging' = Lagging \cup {d}
  BY PublishedLast DEF StoreInv, StoreTyped
<1>3. device'[d] = new /\ \A e \in Device \ {d} : device'[e] = device[e]
  BY <1>2
<1>4. WorkTyped'
  BY DEF WorkTyped
<1>5. Kept'
  <2>1. \A e \in Device : Held(device'[e]) <=> Held(device[e])
    BY <1>3 DEF KeepsHold
  <2>2. \A n \in Name : NoneHeld(n)' <=> NoneHeld(n)
    BY <2>1 DEF NoneHeld, Named, Held
  <2> QED
    BY <2>2 DEF Kept
<1>6. RestIsSettled'
  <2> SUFFICES ASSUME NEW e \in Device PROVE Busy(e)' \/ Settled(e)'
    BY DEF RestIsSettled
  <2>1. CASE e = d
    BY <1>2, <2>1 DEF Busy
  <2>2. CASE e # d
    <3>1. Busy(e) => Busy(e)'
      BY <1>2, <2>2 DEF Busy
    <3>2. Settled(e) => Settled(e)'
      BY <1>3, <2>2, SettledStays DEF Deployed
    <3> QED
      BY <3>1, <3>2 DEF RestIsSettled
  <2> QED
    BY <2>1, <2>2
<1> QED
  BY <1>1, <1>4, <1>5, <1>6

LEMMA WriteKeepsRun ==
  ASSUME StoreInv, RunInv,
         NEW d \in Device, NEW new \in MaybeObject, Put(d, new), KeepsHold(new, device[d]),
         UNCHANGED <<workload, trace, run, queue>>
  PROVE  RunInv'
<1>1. /\ device \in [Device -> MaybeObject] /\ device' = [device EXCEPT ![d] = new]
      /\ Lagging' = Lagging \cup {d}
  BY PublishedLast DEF StoreInv, StoreTyped
<1>2. device'[d] = new /\ \A e \in Device \ {d} : device'[e] = device[e]
  BY <1>1
<1>3. RunTyped' /\ RunProgress'
  BY DEF RunInv, RunTyped, RunProgress, Removed, Made, Mine, Reached, Deleting
<1>4. run # Idle => run.name \in Device
  BY RunFields DEF RunInv, RunTyped
<1>5. RunHeld'
  <2> SUFFICES ASSUME run # Idle
               PROVE  IF Deleting THEN Held(device'[run.name]) => Marked(device'[run.name])
                      ELSE Held(device'[run.name])
    BY DEF RunHeld, Deleting, Held, Marked
  <2>1. CASE run.name = d
    BY <1>2, <2>1 DEF RunInv, RunHeld, KeepsHold
  <2>2. CASE run.name # d
    BY <1>2, <1>4, <2>2 DEF RunInv, RunHeld
  <2> QED
    BY <2>1, <2>2
<1>6. RunFresh'
  <2>1. run # Idle /\ run.name \notin Lagging' => run.name \notin Lagging /\ device'[run.name] = device[run.name]
    BY <1>1, <1>2, <1>4
  <2> QED
    BY <2>1 DEF RunInv, RunFresh, Deleting
<1> QED
  BY <1>3, <1>5, <1>6 DEF RunInv

LEMMA WriteKeeps ==
  ASSUME Inv, NEW d \in Device, NEW new \in MaybeObject, Put(d, new), KeepsHold(new, device[d]),
         UNCHANGED <<cached, workload, trace, run, queue>>, PodsTyped'
  PROVE  Inv'
<1>1. \A e \in Device : RunOf(e) => RunOf(e)' \/ e = d
  BY DEF RunOf
<1> QED
  BY <1>1, WriteKeepsOthers, WriteKeepsRun DEF Inv

-----------------------------------------------------------------------------
(***************************************************************************)
(* The steps that make and remove workloads.                               *)
(***************************************************************************)
LEMMA MineTyped ==
  ASSUME WorkTyped, run \in Runs
  PROVE  NameOf[run.name] \in Name /\ Mine \in Workloads
BY RunFields, StoreAssumption DEF WorkTyped, Mine

(* A step of a reconcile changes the workload of its device's name.        *)
LEMMA MineKeeps ==
  ASSUME Inv, run \in Runs, run' \in Runs, run'.name = run.name, run'.backend = run.backend,
         run'.trace = run.trace, Deleting' <=> Deleting,
         NEW mine \in Workloads, SetMine(mine), Deleting /\ Mine = NoWorkload => mine = NoWorkload,
         UNCHANGED <<device, cached, watch, trace, queue>>, PodsTyped',
         Mine' = mine => RunProgress'
  PROVE  Inv'
<1> DEFINE n == NameOf[run.name]
<1>1. n \in Name /\ run.name \in Device /\ run # Idle /\ run' # Idle
  BY MineTyped, RunFields DEF Inv
<1>2. /\ workload \in [Name -> Workloads] /\ workload' = [workload EXCEPT ![n] = mine]
      /\ Mine = workload[n]
  BY DEF Inv, WorkTyped, SetMine, Mine
<1>3. /\ workload' \in [Name -> Workloads] /\ workload'[n] = mine
      /\ \A m \in Name \ {n} : workload'[m] = workload[m]
  BY <1>1, <1>2
<1>4. StoreInv' /\ Lagging' = Lagging
  BY StoreUnchanged DEF Inv
<1>5. RunInv'
  <2>1. RunTyped' /\ RunHeld'
    BY <1>1 DEF Inv, RunInv, RunTyped, RunHeld, Held, Marked
  <2>2. RunFresh'
    BY <1>1, <1>4 DEF Inv, RunInv, RunFresh
  <2>3. RunProgress'
    BY <1>3 DEF Mine
  <2> QED
    BY <2>1, <2>2, <2>3 DEF RunInv
<1>6. WorkTyped'
  BY <1>3 DEF Inv, WorkTyped
<1>7. Kept'
  <2> SUFFICES ASSUME NEW m \in Name, NoneHeld(m)' PROVE workload'[m] = NoWorkload
    BY DEF Kept
  <2>1. NoneHeld(m) /\ workload[m] = NoWorkload
    BY DEF NoneHeld, Named, Held, Inv, Kept
  <2>2. CASE m = n
    <3>1. run.name \in Named(n)
      BY <1>1 DEF Named
    <3>2. ~Held(device[run.name])
      BY <2>1, <2>2, <3>1 DEF NoneHeld
    <3>3. Deleting
      BY <1>1, <3>2 DEF Inv, RunInv, RunHeld
    <3> QED
      BY <1>2, <1>3, <2>1, <2>2, <3>3
  <2>3. CASE m # n
    BY <1>3, <2>1, <2>3
  <2> QED
    BY <2>2, <2>3
<1>8. RestIsSettled'
  <2> SUFFICES ASSUME NEW e \in Device PROVE Busy(e)' \/ Settled(e)'
    BY DEF RestIsSettled
  <2>1. Busy(e) => Busy(e)'
    BY <1>1, <1>4 DEF Busy, RunOf
  <2>2. CASE ~Busy(e)
    <3>1. e # run.name /\ Settled(e)
      BY <1>1, <2>2 DEF Busy, RunOf, Inv, RestIsSettled
    <3>2. OneDevicePerName => NameOf[e] # n
      BY <1>1, <3>1 DEF OneDevicePerName
    <3>3. NameOf[e] \in Name
      BY StoreAssumption
    <3>4. OneDevicePerName => (Deployed(e) => Deployed(e)')
      BY <1>3, <3>2, <3>3 DEF Deployed
    <3> QED
      BY <3>1, <3>4, SettledStays
  <2> QED
    BY <2>1, <2>2
<1> QED
  BY <1>4, <1>5, <1>6, <1>7, <1>8 DEF Inv

LEMMA ServiceAccountKeeps ==
  ASSUME Inv, run \in Runs, reconcileGatewayServiceAccount,
         UNCHANGED <<device, cached, watch, trace>>, PodsTyped'
  PROVE  Inv'
<1>1. PICK yes \in BOOLEAN : yes = TRUE
  OBVIOUS
<1>2. PICK mine : mine = [Mine EXCEPT !.account = yes]
  OBVIOUS
<1>3. mine \in Workloads
  BY <1>2, MineTyped DEF Inv, Workloads
<1>4. run.step = "account" /\ run' = [run EXCEPT !.step = "role"] /\ queue' = queue /\ SetMine(mine)
  BY <1>1, <1>2 DEF reconcileGatewayServiceAccount, At, Goto
<1>5. ~Deleting /\ "role" \in StepsOf(run.backend, run.in.phase = Stopping)
  BY <1>4, RunFields DEF StepsOf, DropSteps, Deleting
<1>6. /\ run' \in Runs /\ run'.step = "role" /\ run'.name = run.name /\ run'.backend = run.backend
      /\ run'.trace = run.trace /\ run'.in = run.in
  BY <1>4, <1>5, NextStep
<1>7. Mine' = mine => RunProgress'
  BY <1>5, <1>6 DEF RunProgress, Made, Reached, Deleting
<1> QED
  BY <1>3, <1>4, <1>5, <1>6, <1>7, MineKeeps DEF Deleting

LEMMA ServiceKeeps ==
  ASSUME Inv, run \in Runs, reconcileSimulatorService,
         UNCHANGED <<device, cached, watch, trace>>, PodsTyped'
  PROVE  Inv'
<1>1. PICK yes \in BOOLEAN : yes = TRUE
  OBVIOUS
<1>2. PICK mine : mine = [Mine EXCEPT !.service = yes]
  OBVIOUS
<1>3. PICK in : in = [run.in EXCEPT !.service = yes]
  OBVIOUS
<1>4. mine \in Workloads /\ mine.service
  BY <1>1, <1>2, MineTyped DEF Inv, Workloads
<1>5. in \in Inputs /\ in.phase = run.in.phase
  BY <1>3, RunFields DEF Inputs
<1>6. /\ run.step = "service" /\ queue' = queue /\ SetMine(mine)
      /\ run' = [run EXCEPT !.step = "simulator", !.in = in]
  BY <1>1, <1>2, <1>3 DEF reconcileSimulatorService, At
<1>7. ~Deleting /\ "simulator" \in StepsOf(run.backend, in.phase = Stopping)
  BY <1>5, <1>6, RunFields DEF StepsOf, DropSteps, Deleting
<1>8. /\ run' \in Runs /\ run'.step = "simulator" /\ run'.name = run.name /\ run'.backend = run.backend
      /\ run'.trace = run.trace /\ run'.in = in
  <2>1. run' = StepWith(run, "simulator", in)
    BY <1>6 DEF StepWith
  <2> QED
    BY <2>1, <1>5, <1>7, NextStepWith
<1>9. run.backend = Simulator
  BY <1>6, <1>7, RunFields DEF StepsOf, DropSteps, Deleting
<1>10. Mine' = mine => RunProgress'
  BY <1>4, <1>5, <1>7, <1>8, <1>9 DEF RunProgress, Made, Reached, Deleting, Hardware, Simulator
<1> QED
  BY <1>4, <1>5, <1>6, <1>7, <1>8, <1>10, MineKeeps DEF Deleting

LEMMA DeployedRecord ==
  ASSUME NEW contents, NEW deployment \in DeploymentsOf(contents) \cup {Absent}, NEW content \in contents
  PROVE  /\ Deploy(deployment, content) \in DeploymentsOf(contents)
         /\ Deploy(deployment, content).state \in States
         /\ Deploy(deployment, content).content = content
BY DEF Deploy, DeploymentsOf, States

LEMMA SimulatorKeeps ==
  ASSUME Inv, run \in Runs, reconcileSimulatorDeployment,
         UNCHANGED <<device, cached, watch, trace>>, PodsTyped'
  PROVE  Inv'
<1>1. PICK deployed : deployed = Deploy(Mine.simulator, run.trace)
  OBVIOUS
<1>2. PICK mine : mine = [Mine EXCEPT !.simulator = deployed]
  OBVIOUS
<1>3. PICK in : in = [run.in EXCEPT !.simulator = deployed.state]
  OBVIOUS
<1>4. Mine.simulator \in DeploymentsOf(BOOLEAN) \cup {Absent} /\ run.trace \in BOOLEAN
  BY MineTyped, RunFields DEF Inv, Workloads
<1>5. deployed \in DeploymentsOf(BOOLEAN) /\ deployed.state \in States /\ deployed # Absent
  BY <1>1, <1>4, DeployedRecord, NoDeploymentAssumption
<1>6. mine \in Workloads /\ mine.simulator = deployed /\ mine.service = Mine.service
  BY <1>2, <1>5, MineTyped DEF Inv, Workloads
<1>7. in \in Inputs /\ in.phase = run.in.phase
  BY <1>3, <1>5, RunFields DEF Inputs
<1>8. /\ run.step = "simulator" /\ queue' = queue /\ SetMine(mine)
      /\ run' = [run EXCEPT !.step = "gateway", !.in = in]
  BY <1>1, <1>2, <1>3 DEF reconcileSimulatorDeployment, At
<1>9. ~Deleting /\ "gateway" \in StepsOf(run.backend, in.phase = Stopping)
  BY <1>7, <1>8, RunFields DEF StepsOf, DropSteps, Deleting
<1>10. /\ run' \in Runs /\ run'.step = "gateway" /\ run'.name = run.name /\ run'.backend = run.backend
       /\ run'.trace = run.trace /\ run'.in = in
  <2>1. run' = StepWith(run, "gateway", in)
    BY <1>8 DEF StepWith
  <2> QED
    BY <2>1, <1>7, <1>9, NextStepWith
<1>11. run.backend = Simulator /\ run # Idle
  BY <1>8, <1>9, RunFields DEF StepsOf, DropSteps, Deleting
<1>12. Mine.service
  BY <1>8, <1>9, <1>11 DEF Inv, RunInv, RunProgress, Made
<1>13. Mine' = mine => RunProgress'
  BY <1>5, <1>6, <1>7, <1>9, <1>10, <1>11, <1>12
     DEF RunProgress, Made, Reached, Deleting, Hardware, Simulator
<1> QED
  BY <1>6, <1>7, <1>8, <1>9, <1>10, <1>13, MineKeeps DEF Deleting

LEMMA GatewayKeeps ==
  ASSUME Inv, run \in Runs, reconcileGatewayDeployment,
         UNCHANGED <<device, cached, watch, trace>>, PodsTyped'
  PROVE  Inv'
<1>1. PICK content : content = GatewayContent(run.name, run.backend, run.trace)
  OBVIOUS
<1>2. PICK deployed : deployed = Deploy(Mine.gateway, content)
  OBVIOUS
<1>3. PICK phase : phase = computePhase(deployed.state, run.in.simulator)
  OBVIOUS
<1>4. PICK mine : mine = [Mine EXCEPT !.gateway = deployed]
  OBVIOUS
<1>5. PICK in : in = [run.in EXCEPT !.gateway = deployed.state, !.phase = phase]
  OBVIOUS
<1>6. Mine.gateway \in DeploymentsOf(Contents) \cup {Absent} /\ content \in Contents
  BY <1>1, MineTyped, RunFields DEF Inv, Workloads, Contents, GatewayContent
<1>7. /\ deployed \in DeploymentsOf(Contents) /\ deployed.state \in States /\ deployed # Absent
      /\ deployed.content = content
  BY <1>2, <1>6, DeployedRecord, NoDeploymentAssumption
<1>8. /\ mine \in Workloads /\ mine.gateway = deployed /\ mine.service = Mine.service
      /\ mine.simulator = Mine.simulator
  BY <1>4, <1>7, MineTyped DEF Inv, Workloads
<1>9. run.in.simulator \in States \cup {Absent}
  BY RunFields DEF Inputs
<1>10. phase \in {Running, Starting, Failed} /\ (phase = Running => HasReplica(deployed.state))
  BY <1>3, <1>7, <1>9, PhaseOfStates
<1>11. in \in Inputs /\ in.phase = phase
  BY <1>5, <1>7, <1>10, RunFields DEF Inputs, Phases
<1>12. /\ run.step = "gateway" /\ queue' = queue /\ SetMine(mine)
       /\ run' = [run EXCEPT !.step = "status", !.in = in]
  BY <1>1, <1>2, <1>3, <1>4, <1>5 DEF reconcileGatewayDeployment, At
<1>13. phase # Stopping
  BY <1>10 DEF Running, Starting, Failed, Stopping
<1>14. ~Deleting /\ "status" \in StepsOf(run.backend, in.phase = Stopping)
  BY <1>11, <1>12, <1>13, RunFields DEF StepsOf, DropSteps, Deleting
<1>15. /\ run' \in Runs /\ run'.step = "status" /\ run'.name = run.name /\ run'.backend = run.backend
       /\ run'.trace = run.trace /\ run'.in = in
  <2>1. run' = StepWith(run, "status", in)
    BY <1>12 DEF StepWith
  <2> QED
    BY <2>1, <1>11, <1>14, NextStepWith
<1>16. Made(Mine)
  BY <1>14, RunFields DEF Inv, RunInv, RunProgress
<1>17. /\ run.backend = Simulator => Mine.service /\ Mine.simulator # Absent
       /\ run.backend = Hardware => ~Mine.service /\ Mine.simulator = Absent
  BY <1>12, <1>16 DEF Made
<1>18. Mine' = mine => RunProgress'
  BY <1>1, <1>7, <1>8, <1>11, <1>13, <1>15, <1>17 DEF RunProgress, Made, Reached, Deleting
<1> QED
  BY <1>8, <1>11, <1>12, <1>13, <1>14, <1>15, <1>18, MineKeeps DEF Deleting

LEMMA RBACKeeps ==
  ASSUME Inv, run \in Runs, reconcileGatewayRBAC,
         UNCHANGED <<device, cached, watch, trace>>, PodsTyped'
  PROVE  Inv'
<1>1. PICK step : step = IF run.step = "role" THEN "binding"
                       ELSE IF run.backend = Simulator THEN "service" ELSE "dropSimulator"
  OBVIOUS
<1>2. PICK mine : mine = Mine
  OBVIOUS
<1>3. mine \in Workloads /\ SetMine(mine)
  BY <1>2, MineTyped DEF Inv, WorkTyped, SetMine, Mine, reconcileGatewayRBAC
<1>4. /\ run.step \in {"role", "binding"}
      /\ run' = [run EXCEPT !.step = step] /\ queue' = queue
  BY <1>1 DEF reconcileGatewayRBAC, At, Goto
<1>5. ~Deleting /\ step \in StepsOf(run.backend, run.in.phase = Stopping)
  BY <1>1, <1>4, RunFields DEF StepsOf, DropSteps, Deleting, Hardware, Simulator
<1>6. /\ run' \in Runs /\ run'.step = step /\ run'.name = run.name /\ run'.backend = run.backend
      /\ run'.trace = run.trace /\ run'.in = run.in
  BY <1>4, <1>5, NextStep
<1>7. run'.step \notin {"simulator", "gateway", "dropService", "status"}
  BY <1>1, <1>6
<1>8. RunProgress'
  BY <1>5, <1>6, <1>7 DEF RunProgress, Made, Reached, Deleting
<1> QED
  BY <1>3, <1>4, <1>5, <1>6, <1>8, MineKeeps DEF Deleting

LEMMA NoWorkloadFields ==
  ASSUME NEW w \in Workloads
  PROVE  w = NoWorkload <=> ~w.account /\ w.gateway = Absent /\ ~w.service /\ w.simulator = Absent
BY DEF Workloads, NoWorkload

LEMMA DeleteGatewayKeeps ==
  ASSUME Inv, run \in Runs, deleteGateway,
         UNCHANGED <<device, cached, watch, trace>>, PodsTyped'
  PROVE  Inv'
<1> DEFINE old == Mine
<1>1. old \in Workloads
  BY MineTyped DEF Inv
<1>2. CASE /\ At("dropGateway") /\ SetMine([Mine EXCEPT !.gateway = Absent]) /\ Goto("dropAccount")
  <2>1. PICK mine : mine = [old EXCEPT !.gateway = Absent]
    OBVIOUS
  <2> HIDE DEF old
  <2>2. /\ mine \in Workloads /\ mine.gateway = Absent /\ mine.account = old.account
        /\ mine.service = old.service /\ mine.simulator = old.simulator
    BY <1>1, <2>1 DEF Workloads
  <2>3. SetMine(mine) /\ run.step = "dropGateway" /\ run' = [run EXCEPT !.step = "dropAccount"]
        /\ queue' = queue
    BY <1>2, <2>1 DEF At, Goto, old
  <2>4. Deleting /\ "dropAccount" \in StepsOf(run.backend, run.in.phase = Stopping)
    BY <2>3, RunFields DEF StepsOf, DropSteps, Deleting
  <2>5. /\ run' \in Runs /\ run'.step = "dropAccount" /\ run'.name = run.name
        /\ run'.backend = run.backend /\ run'.trace = run.trace /\ run'.in = run.in
    BY <2>3, <2>4, NextStep
  <2>6. Mine' = mine => RunProgress'
    BY <2>2, <2>4, <2>5 DEF RunProgress, Removed, Deleting
  <2>7. old = NoWorkload => mine = NoWorkload
    BY <1>1, <2>2, NoWorkloadFields
  <2> QED
    BY <2>2, <2>3, <2>4, <2>5, <2>6, <2>7, MineKeeps DEF Deleting, old
<1>3. CASE /\ At("dropAccount") /\ SetMine([Mine EXCEPT !.account = FALSE]) /\ Goto("dropSimulator")
  <2>1. PICK no \in BOOLEAN : no = FALSE
    OBVIOUS
  <2>2. PICK mine : mine = [old EXCEPT !.account = no]
    OBVIOUS
  <2> HIDE DEF old
  <2>3. /\ mine \in Workloads /\ ~mine.account /\ mine.gateway = old.gateway
        /\ mine.service = old.service /\ mine.simulator = old.simulator
    BY <1>1, <2>1, <2>2 DEF Workloads
  <2>4. SetMine(mine) /\ run.step = "dropAccount" /\ run' = [run EXCEPT !.step = "dropSimulator"]
        /\ queue' = queue
    BY <1>3, <2>1, <2>2 DEF At, Goto, old
  <2>5. Deleting /\ "dropSimulator" \in StepsOf(run.backend, run.in.phase = Stopping)
    BY <2>4, RunFields DEF StepsOf, DropSteps, Deleting
  <2>6. /\ run' \in Runs /\ run'.step = "dropSimulator" /\ run'.name = run.name
        /\ run'.backend = run.backend /\ run'.trace = run.trace /\ run'.in = run.in
    BY <2>4, <2>5, NextStep
  <2>7. old.gateway = Absent
    BY <2>4, <2>5, RunFields DEF Inv, RunInv, RunProgress, Removed, old
  <2>8. Mine' = mine => RunProgress'
    BY <2>3, <2>5, <2>6, <2>7 DEF RunProgress, Removed, Deleting
  <2>9. old = NoWorkload => mine = NoWorkload
    BY <1>1, <2>3, NoWorkloadFields
  <2> QED
    BY <2>3, <2>4, <2>5, <2>6, <2>8, <2>9, MineKeeps DEF Deleting, old
<1> QED
  BY <1>2, <1>3 DEF deleteGateway

LEMMA DeleteSimulatorKeeps ==
  ASSUME Inv, run \in Runs, deleteSimulator,
         UNCHANGED <<device, cached, watch, trace>>, PodsTyped'
  PROVE  Inv'
<1> DEFINE old == Mine
<1>1. old \in Workloads /\ (IF Deleting THEN Removed(old) ELSE Made(old))
  BY MineTyped, RunFields DEF Inv, RunInv, RunProgress
<1>2. CASE /\ At("dropSimulator") /\ SetMine([Mine EXCEPT !.simulator = Absent]) /\ Goto("dropService")
  <2>1. PICK mine : mine = [old EXCEPT !.simulator = Absent]
    OBVIOUS
  <2> HIDE DEF old
  <2>2. /\ mine \in Workloads /\ mine.simulator = Absent /\ mine.account = old.account
        /\ mine.service = old.service /\ mine.gateway = old.gateway
    BY <1>1, <2>1 DEF Workloads
  <2>3. SetMine(mine) /\ run.step = "dropSimulator" /\ run' = [run EXCEPT !.step = "dropService"]
        /\ queue' = queue
    BY <1>2, <2>1 DEF At, Goto, old
  <2>4. /\ "dropService" \in StepsOf(run.backend, run.in.phase = Stopping)
        /\ Deleting \/ run.backend = Hardware
    BY <2>3, RunFields DEF StepsOf, DropSteps, Deleting
  <2>5. /\ run' \in Runs /\ run'.step = "dropService" /\ run'.name = run.name
        /\ run'.backend = run.backend /\ run'.trace = run.trace /\ run'.in = run.in
    BY <2>3, <2>4, NextStep
  <2>6. Mine' = mine => RunProgress'
    BY <1>1, <2>2, <2>3, <2>4, <2>5 DEF RunProgress, Removed, Made, Reached, Deleting, Hardware, Simulator
  <2>7. old = NoWorkload => mine = NoWorkload
    BY <1>1, <2>2, NoWorkloadFields
  <2> QED
    BY <2>2, <2>3, <2>4, <2>5, <2>6, <2>7, MineKeeps DEF Deleting, old
<1>3. CASE /\ At("dropService") /\ SetMine([Mine EXCEPT !.service = FALSE])
           /\ Goto(IF Deleting THEN "unfinalize" ELSE "gateway")
  <2>1. PICK no \in BOOLEAN : no = FALSE
    OBVIOUS
  <2>2. PICK mine : mine = [old EXCEPT !.service = no]
    OBVIOUS
  <2>3. PICK step : step = IF Deleting THEN "unfinalize" ELSE "gateway"
    OBVIOUS
  <2> HIDE DEF old
  <2>4. /\ mine \in Workloads /\ ~mine.service /\ mine.gateway = old.gateway
        /\ mine.account = old.account /\ mine.simulator = old.simulator
    BY <1>1, <2>1, <2>2 DEF Workloads
  <2>5. SetMine(mine) /\ run.step = "dropService" /\ run' = [run EXCEPT !.step = step]
        /\ queue' = queue
    BY <1>3, <2>1, <2>2, <2>3 DEF At, Goto, old
  <2>6. /\ step \in StepsOf(run.backend, run.in.phase = Stopping)
        /\ Deleting \/ run.backend = Hardware
    BY <2>3, <2>5, RunFields DEF StepsOf, DropSteps, Deleting
  <2>7. /\ run' \in Runs /\ run'.step = step /\ run'.name = run.name
        /\ run'.backend = run.backend /\ run'.trace = run.trace /\ run'.in = run.in
    BY <2>5, <2>6, NextStep
  <2>8. Mine' = mine => RunProgress'
    BY <1>1, <2>3, <2>4, <2>5, <2>6, <2>7
       DEF RunProgress, Removed, Made, Reached, Deleting, Hardware, Simulator
  <2>9. old = NoWorkload => mine = NoWorkload
    BY <1>1, <2>4, NoWorkloadFields
  <2> QED
    BY <2>4, <2>5, <2>6, <2>7, <2>8, <2>9, MineKeeps DEF Deleting, old
<1> QED
  BY <1>2, <1>3 DEF deleteSimulator

LEMMA WorkloadStepKeeps ==
  ASSUME Inv, run \in Runs, WorkloadStep, PodsTyped'
  PROVE  Inv'
BY ServiceAccountKeeps, RBACKeeps, ServiceKeeps, SimulatorKeeps, GatewayKeeps, DeleteGatewayKeeps,
   DeleteSimulatorKeeps DEF WorkloadStep

-----------------------------------------------------------------------------
(***************************************************************************)
(* A reconcile ends, goes on without a workload, or starts.                *)
(***************************************************************************)
LEMMA RequeueKeeps ==
  ASSUME Inv, run \in Runs, Requeue, UNCHANGED <<device, cached, watch, workload, trace>>, PodsTyped'
  PROVE  Inv'
<1>1. run' = Idle /\ queue' = queue \cup {run.name}
  BY DEF Requeue
<1>2. StoreInv' /\ Lagging' = Lagging
  BY StoreUnchanged DEF Inv
<1>3. RunInv'
  BY <1>1 DEF RunInv, RunTyped, RunHeld, RunProgress, RunFresh
<1>4. \A d \in Device : Busy(d) => Busy(d)'
  BY <1>1, <1>2 DEF Busy, RunOf
<1>5. RestIsSettled' /\ Kept' /\ WorkTyped'
  BY <1>4, RestStays, KeptStays DEF Inv, WorkTyped
<1> QED
  BY <1>2, <1>3, <1>5 DEF Inv

LEMMA FailedWorkloadKeeps ==
  ASSUME Inv, run \in Runs, FailedWorkload, ~Deleting, ~At("status"),
         UNCHANGED <<device, cached, watch, workload, trace>>, PodsTyped'
  PROVE  Inv'
<1>1. PICK in : in = StatusInput(Absent, IF At("gateway") THEN run.in.simulator ELSE Absent,
                                 run.in.service, Failed)
  OBVIOUS
<1>2. run' = StepWith(run, "status", in) /\ queue' = queue
  BY <1>1 DEF FailedWorkload, StepWith
<1>3. in \in Inputs /\ in.phase = Failed
  BY <1>1, RunFields DEF StatusInput, Inputs, Phases, Failed, Running
<1>4. "status" \in StepsOf(run.backend, in.phase = Stopping)
  BY <1>3 DEF StepsOf, Failed, Stopping
<1>5. /\ run' \in Runs /\ run'.step = "status" /\ run'.name = run.name /\ run'.backend = run.backend
      /\ run'.trace = run.trace /\ run'.in = in
  BY <1>2, <1>3, <1>4, NextStepWith
<1>6. run # Idle /\ run' # Idle /\ ~Deleting'
  BY <1>3, <1>5, RunFields DEF Deleting, Failed, Stopping
<1>7. StoreInv' /\ Lagging' = Lagging
  BY StoreUnchanged DEF Inv
<1>8. ~Reached'
  BY <1>3, <1>5 DEF Reached, Failed, Starting, Running
<1>9. RunInv'
  <2>1. RunTyped' /\ RunHeld'
    BY <1>5, <1>6 DEF Inv, RunInv, RunTyped, RunHeld, Held
  <2>2. RunProgress'
    BY <1>5, <1>6, <1>8 DEF RunProgress, Made
  <2>3. RunFresh'
    BY <1>2, <1>5, <1>6, <1>7 DEF Inv, RunInv, RunFresh
  <2> QED
    BY <2>1, <2>2, <2>3 DEF RunInv
<1>10. \A d \in Device : Busy(d) => Busy(d)'
  BY <1>2, <1>5, <1>6, <1>7 DEF Busy, RunOf
<1>11. RestIsSettled' /\ Kept' /\ WorkTyped'
  BY <1>10, RestStays, KeptStays DEF Inv, WorkTyped
<1> QED
  BY <1>7, <1>9, <1>11 DEF Inv

LEMMA CallFailsKeeps ==
  ASSUME Inv, CallFails, PodsTyped'
  PROVE  Inv'
<1>1. run \in Runs
  BY DEF CallFails, Inv, RunInv, RunTyped
<1> QED
  BY <1>1, RequeueKeeps, FailedWorkloadKeeps DEF CallFails, storeVars

LEMMA FinishSettles ==
  ASSUME Inv, run \in Runs, Finish, UNCHANGED <<device, cached, watch, workload, trace>>, PodsTyped',
         run.name \in Lagging \/ run.name \in queue \/ Settled(run.name)
  PROVE  Inv'
<1>1. run' = Idle /\ queue' = queue
  BY DEF Finish
<1>2. StoreInv' /\ Lagging' = Lagging
  BY StoreUnchanged DEF Inv
<1>3. RunInv'
  BY <1>1 DEF RunInv, RunTyped, RunHeld, RunProgress, RunFresh
<1>4. RestIsSettled'
  <2> SUFFICES ASSUME NEW d \in Device PROVE Busy(d)' \/ Settled(d)'
    BY DEF RestIsSettled
  <2>1. Settled(d) => Settled(d)'
    BY SettledStays DEF Deployed
  <2>2. CASE d = run.name
    BY <1>1, <1>2, <2>1, <2>2 DEF Busy
  <2>3. CASE d # run.name
    BY <1>1, <1>2, <2>1, <2>3 DEF Busy, RunOf, Inv, RestIsSettled
  <2> QED
    BY <2>2, <2>3
<1>5. Kept' /\ WorkTyped'
  BY KeptStays DEF Inv, WorkTyped
<1> QED
  BY <1>2, <1>3, <1>4, <1>5 DEF Inv

(* A deployed workload whose device is shown as it is needs no more work.  *)
LEMMA CurrentIsSettled ==
  ASSUME Inv, run \in Runs, ~Deleting, run.step = "status", run.name \notin Lagging, run.name \notin queue,
         deviceStatusIsCurrent(cached[run.name], run.in)
  PROVE  Settled(run.name)
<1> DEFINE d == run.name
           s == device[d].status
<1>1. d \in Device /\ run # Idle /\ run.in \in Inputs /\ run.backend \in {Hardware, Simulator}
  BY RunFields
<1>2. cached[d] = device[d]
  BY <1>1 DEF Inv, StoreInv, Synced
<1>3. /\ device[d] # Absent /\ ~device[d].deleting
      /\ device[d].backend = run.backend /\ trace = run.trace /\ device[d].finalizer
  BY <1>1 DEF Inv, RunInv, RunFresh, RunHeld, Held
<1>4. /\ s.phase = run.in.phase /\ s.observed = device[d].generation
      /\ GatewayReady \in DOMAIN s.conditions
      /\ s.conditions[GatewayReady].status = HasReplica(run.in.gateway)
  BY <1>2 DEF deviceStatusIsCurrent, FieldsAreCurrent
<1>5. s.phase = Running => Shown(s.conditions, GatewayReady)
  BY <1>1, <1>4 DEF Inputs, Shown
<1>6. ASSUME s.phase \in {Starting, Running} PROVE Deployed(d)
  <2>1. Reached /\ Made(Mine)
    BY <1>1, <1>4, <1>6 DEF Reached, Inv, RunInv, RunProgress
  <2>2. /\ Mine.gateway # Absent /\ Mine.gateway.content = GatewayContent(d, run.backend, run.trace)
        /\ run.backend = Simulator => Mine.service /\ Mine.simulator # Absent
        /\ run.backend = Hardware => ~Mine.service /\ Mine.simulator = Absent
    BY <2>1 DEF Made
  <2>3. Mine.service \in BOOLEAN /\ Hardware # Simulator
    BY MineTyped DEF Inv, Workloads, Hardware, Simulator
  <2> QED
    BY <1>1, <1>3, <2>2, <2>3 DEF Deployed, Mine
<1> QED
  BY <1>3, <1>4, <1>5, <1>6 DEF Settled

LEMMA GotoDropGateway ==
  ASSUME RunInv, run \in Runs, Deleting, Goto("dropGateway"),
         run.name \in Lagging' \/ UNCHANGED <<device, watch>>,
         Held(device'[run.name]) => Marked(device'[run.name])
  PROVE  RunInv' /\ queue' = queue /\ \A d : RunOf(d) <=> RunOf(d)'
<1>1. run' = [run EXCEPT !.step = "dropGateway"] /\ queue' = queue
  BY DEF Goto
<1>2. "dropGateway" \in StepsOf(run.backend, run.in.phase = Stopping)
  BY DEF StepsOf, Deleting
<1>3. /\ run' \in Runs /\ run'.step = "dropGateway" /\ run'.name = run.name
      /\ run'.backend = run.backend /\ run'.trace = run.trace /\ run'.in = run.in
  BY <1>1, <1>2, NextStep
<1>4. run # Idle /\ run' # Idle /\ Deleting'
  BY <1>3, RunFields DEF Deleting
<1>5. RunTyped' /\ RunHeld' /\ RunProgress'
  BY <1>3, <1>4 DEF RunTyped, RunHeld, Held, Marked, RunProgress, Removed
<1>6. RunFresh'
  BY <1>1, <1>3, <1>4 DEF RunInv, RunFresh, Lagging
<1> QED
  BY <1>1, <1>3, <1>4, <1>5, <1>6 DEF RunInv, RunOf

LEMMA UpdateStatusKeeps ==
  ASSUME Inv, run \in Runs, updateStatus, PodsTyped'
  PROVE  Inv'
<1> DEFINE d == run.name
           latest == cached[d]
<1>1. /\ d \in Device /\ run # Idle /\ run.in \in Inputs
      /\ device[d] \in MaybeObject /\ latest \in MaybeObject
      /\ UNCHANGED <<cached, workload, trace>>
  BY RunFields DEF Inv, StoreInv, StoreTyped, updateStatus
<1>2. run.step \in {"status", "stopping"} /\ (Deleting <=> run.step = "stopping")
  BY RunFields DEF updateStatus, At, StepsOf, DropSteps, Deleting
<1>3. CASE Requeue /\ UNCHANGED <<device, watch>>
  BY <1>1, <1>3, RequeueKeeps
<1>4. CASE /\ latest # Absent /\ deviceStatusIsCurrent(latest, run.in)
           /\ StatusDone /\ UNCHANGED <<device, watch>>
  <2>1. CASE Deleting
    <3>1. Goto("dropGateway")
      BY <1>4, <2>1 DEF StatusDone
    <3>2. Held(device'[d]) => Marked(device'[d])
      BY <1>1, <1>4, <2>1 DEF Inv, RunInv, RunHeld
    <3>3. RunInv' /\ queue' = queue /\ \A e : RunOf(e) <=> RunOf(e)'
      BY <1>4, <2>1, <3>1, <3>2, GotoDropGateway DEF Inv
    <3>4. StoreInv' /\ Lagging' = Lagging
      BY <1>1, <1>4, StoreUnchanged DEF Inv
    <3>5. \A e \in Device : Busy(e) => Busy(e)'
      BY <3>3, <3>4 DEF Busy
    <3>6. RestIsSettled' /\ Kept' /\ WorkTyped'
      BY <1>1, <1>4, <3>5, RestStays, KeptStays DEF Inv, WorkTyped
    <3> QED
      BY <3>3, <3>4, <3>6 DEF Inv
  <2>2. CASE ~Deleting
    <3>1. Finish /\ run.step = "status"
      BY <1>2, <1>4, <2>2 DEF StatusDone
    <3>2. d \in Lagging \/ d \in queue \/ Settled(d)
      BY <1>4, <2>2, <3>1, CurrentIsSettled
    <3> QED
      BY <1>1, <1>4, <3>1, <3>2, FinishSettles
  <2> QED
    BY <2>1, <2>2
<1>5. CASE /\ latest # Absent /\ device[d] # Absent
           /\ Put(d, [device[d] EXCEPT
                        !.status = MergePatch(@, latest.status, OperatorStatus(latest, run.in))])
           /\ StatusDone
  <2>1. device[d] \in Objects /\ latest \in Objects
    BY <1>1, <1>5 DEF MaybeObject
  <2>2. PICK new : new = [device[d] EXCEPT
                            !.status = MergePatch(@, latest.status, OperatorStatus(latest, run.in))]
    OBVIOUS
  <2>3. new \in Objects /\ KeepsHold(new, device[d])
    BY <1>1, <2>1, <2>2, PatchKeeps
  <2>4. new \in MaybeObject
    BY <2>3 DEF MaybeObject
  <2>10. Put(d, new)
    BY <1>5, <2>2
  <2>5. device' = [device EXCEPT ![d] = new] /\ d \in Lagging' /\ device'[d] = new
    <3>1. StoreTyped /\ device \in [Device -> MaybeObject]
      BY DEF Inv, StoreInv, StoreTyped
    <3> HIDE DEF d, latest
    <3>2. device' = [device EXCEPT ![d] = new] /\ Lagging' = Lagging \cup {d}
      BY <1>1, <2>4, <2>10, <3>1, PublishedLast
    <3> QED
      BY <1>1, <3>1, <3>2
  <2>6. RunInv' /\ queue' = queue /\ \A e : RunOf(e) => RunOf(e)' \/ e = d
    <3>1. CASE Deleting
      <4>1. Goto("dropGateway")
        BY <1>5, <3>1 DEF StatusDone
      <4>2. Held(device'[d]) => Marked(device'[d])
        BY <1>1, <2>3, <2>5, <3>1 DEF Inv, RunInv, RunHeld, KeepsHold
      <4> QED
        BY <2>5, <3>1, <4>1, <4>2, GotoDropGateway DEF Inv
    <3>2. CASE ~Deleting
      BY <1>5, <3>2 DEF StatusDone, Finish, RunInv, RunTyped, RunHeld, RunProgress, RunFresh, RunOf
    <3> QED
      BY <3>1, <3>2
  <2>7. StoreInv' /\ WorkTyped' /\ Kept' /\ RestIsSettled'
    <3> HIDE DEF d, latest
    <3> QED
      BY <1>1, <2>3, <2>4, <2>10, <2>6, WriteKeepsOthers DEF Inv
  <2> QED
    BY <2>6, <2>7 DEF Inv
<1> QED
  BY <1>3, <1>4, <1>5 DEF updateStatus

LEMMA RemoveFinalizerKeeps ==
  ASSUME Inv, run \in Runs, RemoveFinalizer, PodsTyped'
  PROVE  Inv'
<1> DEFINE d == run.name
           latest == cached[d]
<1>1. /\ d \in Device /\ run # Idle /\ latest \in MaybeObject /\ run.step = "unfinalize"
      /\ UNCHANGED <<cached, workload, trace>>
  BY RunFields DEF Inv, StoreInv, StoreTyped, RemoveFinalizer, At
<1>2. Deleting
  BY <1>1, RunFields DEF StepsOf, DropSteps, Deleting
<1>3. CASE Requeue /\ UNCHANGED <<device, watch>>
  BY <1>1, <1>3, RequeueKeeps
<1>4. CASE /\ d \notin Lagging /\ latest # Absent /\ Finish
           /\ IF Unfinalized(latest) = latest
              THEN UNCHANGED <<device, watch>> ELSE Put(d, Unfinalized(latest))
  <2>1. latest = device[d] /\ latest \in Objects /\ run' = Idle /\ queue' = queue
    BY <1>1, <1>4 DEF Inv, StoreInv, Synced, MaybeObject, Finish
  <2>2. RunInv'
    BY <2>1 DEF RunInv, RunTyped, RunHeld, RunProgress, RunFresh
  <2>3. Mine = NoWorkload
    BY <1>1, <1>2, MineTyped, NoWorkloadFields DEF Inv, RunInv, RunProgress, Removed
  <2>4. \A e \in Device : RunOf(e) => RunOf(e)' \/ e = d
    BY DEF RunOf
  <2>5. CASE latest.deleting
    <3>1. Put(d, Absent)
      BY <1>4, <2>5 DEF Unfinalized
    <3>2. Follows(Absent, cached[d])
      BY <2>5 DEF Follows, Held, Marked
    <3>3. \A i \in DOMAIN watch : watch[i].name # d
      BY <1>4 DEF Lagging
    <3>4. /\ device \in [Device -> MaybeObject] /\ device' = [device EXCEPT ![d] = Absent]
          /\ Lagging' = Lagging \cup {d}
      BY <1>1, <3>1, PublishedLast DEF Inv, StoreInv, StoreTyped, MaybeObject
    <3>5. StoreInv'
      <4>1. StoreInv /\ Absent \in MaybeObject /\ UNCHANGED cached
        BY <1>1 DEF Inv, MaybeObject
      <4>2. \A i \in DOMAIN watch : watch[i].name = d => Follows(Absent, watch[i].obj)
        BY <3>3
      <4>3. d \in Device /\ Put(d, Absent) /\ Follows(Absent, cached[d])
        BY <1>1, <3>1, <3>2
      <4> HIDE DEF d, latest
      <4> QED
        BY <4>1, <4>2, <4>3, PutKeepsStore
    <3>6. device'[d] = Absent /\ \A e \in Device \ {d} : device'[e] = device[e]
      BY <1>1, <3>4
    <3>7. Kept'
      <4> SUFFICES ASSUME NEW n \in Name, NoneHeld(n)' PROVE workload[n] = NoWorkload
        BY <1>1 DEF Kept
      <4>1. CASE n = NameOf[d]
        BY <2>3, <4>1 DEF Mine
      <4>2. CASE n # NameOf[d]
        <5>1. \A e \in Named(n) : device'[e] = device[e]
          BY <3>6, <4>2 DEF Named
        <5>2. NoneHeld(n)
          BY <5>1 DEF NoneHeld, Named, Held
        <5> QED
          BY <5>2 DEF Inv, Kept
      <4> QED
        BY <4>1, <4>2
    <3>8. RestIsSettled'
      <4> SUFFICES ASSUME NEW e \in Device PROVE Busy(e)' \/ Settled(e)'
        BY DEF RestIsSettled
      <4>1. CASE e = d
        BY <3>4, <4>1 DEF Busy
      <4>2. CASE e # d
        <5>1. Busy(e) => Busy(e)'
          BY <2>1, <2>4, <3>4, <4>2 DEF Busy
        <5>2. Settled(e) => Settled(e)'
          BY <1>1, <3>6, <4>2, SettledStays DEF Deployed
        <5> QED
          BY <5>1, <5>2 DEF Inv, RestIsSettled
      <4> QED
        BY <4>1, <4>2
    <3> QED
      BY <1>1, <2>2, <3>5, <3>7, <3>8 DEF Inv, WorkTyped
  <2>6. CASE ~latest.deleting
    <3>1. ~Held(device[d]) /\ ~latest.finalizer
      BY <1>1, <1>2, <1>4, <2>1, <2>6 DEF Inv, RunInv, RunHeld, Held, Marked
    <3>2. d \in queue
      BY <1>1, <1>2, <1>4, <2>1, <2>6 DEF Inv, RunInv, RunFresh
    <3>3. CASE UNCHANGED <<device, watch>>
      BY <1>1, <1>4, <3>2, <3>3, FinishSettles
    <3>4. CASE Put(d, Unfinalized(latest))
      <4>1. PICK no \in BOOLEAN : no = FALSE
        OBVIOUS
      <4>2. PICK new : new = [latest EXCEPT !.finalizer = no]
        OBVIOUS
      <4>3. new \in Objects /\ ~new.finalizer
        <5> HIDE DEF latest
        <5> QED
          BY <2>1, <2>6, <4>1, <4>2 DEF Objects
      <4>4. new \in MaybeObject /\ KeepsHold(new, device[d]) /\ Put(d, new)
        BY <2>6, <3>1, <3>4, <4>1, <4>2, <4>3 DEF MaybeObject, KeepsHold, Held, Unfinalized
      <4>5. StoreInv' /\ WorkTyped' /\ Kept' /\ RestIsSettled'
        <5> HIDE DEF d, latest
        <5> QED
          BY <1>1, <2>1, <2>4, <4>4, WriteKeepsOthers DEF Inv
      <4> QED
        BY <2>2, <4>5 DEF Inv
    <3> QED
      BY <1>4, <3>3, <3>4
  <2> QED
    BY <2>5, <2>6
<1> QED
  BY <1>3, <1>4 DEF RemoveFinalizer

LEMMA NewRunSound ==
  ASSUME NEW d \in Device, NEW obj \in Objects, cached[d] = obj, trace \in BOOLEAN
  PROVE  LET r == NewRun(d, IF obj.deleting THEN "stopping" ELSE "account")
         IN  /\ r \in Runs /\ r.name = d /\ r.backend = obj.backend /\ r.trace = trace
             /\ r.step = (IF obj.deleting THEN "stopping" ELSE "account")
             /\ r.in.phase = (IF obj.deleting THEN Stopping ELSE Failed)
<1>1. PICK step : step = IF obj.deleting THEN "stopping" ELSE "account"
  OBVIOUS
<1>2. PICK in : in = StatusInput(Absent, Absent, FALSE, IF obj.deleting THEN Stopping ELSE Failed)
  OBVIOUS
<1>3. PICK r : r = NewRun(d, step)
  OBVIOUS
<1>4. obj.backend \in {Hardware, Simulator} /\ obj.deleting \in BOOLEAN
  BY ObjectFields
<1>5. in \in Inputs /\ in.phase = IF obj.deleting THEN Stopping ELSE Failed
  <2>1. PICK no \in BOOLEAN : no = FALSE
    OBVIOUS
  <2>2. in = [gateway |-> Absent, simulator |-> Absent, service |-> no,
              phase |-> IF obj.deleting THEN Stopping ELSE Failed]
    BY <1>2, <2>1 DEF StatusInput
  <2> QED
    BY <1>4, <2>1, <2>2 DEF Inputs, Phases, Stopping, Failed, Running
<1>6. r = [step |-> step, name |-> d, backend |-> obj.backend, trace |-> trace, in |-> in]
  BY <1>1, <1>2, <1>3 DEF NewRun
<1>7. step \in StepsOf(obj.backend, in.phase = Stopping)
  BY <1>1, <1>4, <1>5 DEF StepsOf, Stopping, Failed
<1>8. step \in StepsOf(Simulator, TRUE) \cup StepsOf(Simulator, FALSE) \cup StepsOf(Hardware, FALSE)
  BY <1>4, <1>7, StepsKnown
<1>9. /\ r.name = d /\ r.backend = obj.backend /\ r.trace = trace /\ r.step = step /\ r.in = in
  BY <1>6
<1>10. r \in Runs
  <2>1. r \in [step : StepsOf(Simulator, TRUE) \cup StepsOf(Simulator, FALSE) \cup StepsOf(Hardware, FALSE),
               name : Device, backend : {Hardware, Simulator}, trace : BOOLEAN, in : Inputs]
    BY <1>4, <1>5, <1>6, <1>8
  <2> QED
    BY <1>7, <1>9, <2>1 DEF Runs
<1> QED
  BY <1>1, <1>3, <1>5, <1>9, <1>10

LEMMA BeginKeeps ==
  ASSUME Inv, NEW d \in Device, Begin(d), PodsTyped'
  PROVE  Inv'
<1>1. /\ run = Idle /\ d \in queue /\ UNCHANGED <<cached, workload, trace>>
      /\ device[d] \in MaybeObject /\ cached[d] \in MaybeObject /\ trace \in BOOLEAN
  BY DEF Begin, Inv, StoreInv, StoreTyped, WorkTyped
<1>2. \A e : ~RunOf(e)
  BY <1>1 DEF RunOf
<1>3. CASE cached[d] = Absent /\ queue' = queue \ {d} /\ UNCHANGED <<device, watch, run>>
  <2>1. StoreInv' /\ Lagging' = Lagging
    BY <1>1, <1>3, StoreUnchanged DEF Inv
  <2>2. RunInv' /\ WorkTyped' /\ Kept'
    BY <1>1, <1>3, KeptStays DEF Inv, RunInv, RunTyped, RunHeld, RunProgress, RunFresh, WorkTyped
  <2>3. RestIsSettled'
    <3> SUFFICES ASSUME NEW e \in Device PROVE Busy(e)' \/ Settled(e)'
      BY DEF RestIsSettled
    <3>1. CASE e = d
      <4>1. CASE d \in Lagging
        BY <2>1, <3>1, <4>1 DEF Busy
      <4>2. CASE d \notin Lagging
        BY <1>3, <3>1, <4>2 DEF Inv, StoreInv, Synced, Settled
      <4> QED
        BY <4>1, <4>2
    <3>2. CASE e # d
      <4>1. Busy(e) => Busy(e)'
        BY <1>2, <1>3, <2>1, <3>2 DEF Busy
      <4>2. Settled(e) => Settled(e)'
        BY <1>1, <1>3, SettledStays DEF Deployed
      <4> QED
        BY <4>1, <4>2 DEF Inv, RestIsSettled
    <3> QED
      BY <3>1, <3>2
  <2> QED
    BY <2>1, <2>2, <2>3 DEF Inv
<1>4. CASE /\ cached[d] # Absent /\ ~cached[d].finalizer /\ d \notin Lagging
           /\ Put(d, [device[d] EXCEPT !.finalizer = TRUE]) /\ queue' = queue \ {d} /\ UNCHANGED run
  <2>1. device[d] = cached[d] /\ device[d] \in Objects /\ ~device[d].deleting
    BY <1>1, <1>4, ObjectFields DEF Inv, StoreInv, Synced, MaybeObject
  <2>2. PICK new : new = [device[d] EXCEPT !.finalizer = TRUE]
    OBVIOUS
  <2>3. new \in MaybeObject /\ Held(new)
    BY <2>1, <2>2, FinalizerAdded DEF MaybeObject
  <2>4. Put(d, new)
    BY <1>4, <2>2
  <2>5. Follows(new, cached[d])
    BY <2>1, <2>3 DEF Follows, Held, Marked
  <2>6. \A i \in DOMAIN watch : watch[i].name = d => Follows(new, watch[i].obj)
    BY <1>4 DEF Lagging
  <2>7. StoreInv'
    BY <1>1, <2>3, <2>4, <2>5, <2>6, PutKeepsStore DEF Inv
  <2>8. device' = [device EXCEPT ![d] = new] /\ Lagging' = Lagging \cup {d}
        /\ device \in [Device -> MaybeObject]
    BY <2>3, <2>4, PublishedLast DEF Inv, StoreInv, StoreTyped
  <2>9. device'[d] = new /\ \A e \in Device \ {d} : device'[e] = device[e]
    BY <2>8
  <2>10. RunInv' /\ WorkTyped'
    BY <1>1, <1>4 DEF Inv, RunInv, RunTyped, RunHeld, RunProgress, RunFresh, WorkTyped
  <2>11. Kept'
    <3>1. \A e \in Device : Held(device[e]) => Held(device'[e])
      BY <2>3, <2>9
    <3>2. \A n \in Name : NoneHeld(n)' => NoneHeld(n)
      BY <3>1 DEF NoneHeld, Named, Held
    <3> QED
      BY <1>1, <3>2 DEF Inv, Kept
  <2>12. RestIsSettled'
    <3> SUFFICES ASSUME NEW e \in Device PROVE Busy(e)' \/ Settled(e)'
      BY DEF RestIsSettled
    <3>1. CASE e = d
      BY <2>8, <3>1 DEF Busy
    <3>2. CASE e # d
      <4>1. Busy(e) => Busy(e)'
        BY <1>2, <1>4, <2>8, <3>2 DEF Busy
      <4>2. Settled(e) => Settled(e)'
        BY <1>1, <2>9, <3>2, SettledStays DEF Deployed
      <4> QED
        BY <4>1, <4>2 DEF Inv, RestIsSettled
    <3> QED
      BY <3>1, <3>2
  <2> QED
    BY <2>7, <2>10, <2>11, <2>12 DEF Inv
<1>5. CASE UNCHANGED <<device, watch, queue, run>>
  <2>1. StoreInv' /\ Lagging' = Lagging
    BY <1>1, <1>5, StoreUnchanged DEF Inv
  <2>2. \A e \in Device : Busy(e) => Busy(e)'
    BY <1>2, <1>5, <2>1 DEF Busy
  <2>3. RunInv' /\ WorkTyped' /\ Kept' /\ RestIsSettled'
    BY <1>1, <1>5, <2>2, RunStays, KeptStays, RestStays DEF Inv, WorkTyped
  <2> QED
    BY <2>1, <2>3 DEF Inv
<1>6. CASE /\ cached[d] # Absent /\ cached[d].finalizer
           /\ run' = NewRun(d, IF cached[d].deleting THEN "stopping" ELSE "account")
           /\ queue' = queue \ {d} /\ UNCHANGED <<device, watch>>
  <2>1. PICK obj \in Objects : obj = cached[d]
    BY <1>1, <1>6 DEF MaybeObject
  <2>2. /\ run' \in Runs /\ run'.name = d /\ run'.backend = obj.backend /\ run'.trace = trace
        /\ run'.step = (IF obj.deleting THEN "stopping" ELSE "account")
        /\ run'.in.phase = (IF obj.deleting THEN Stopping ELSE Failed)
    BY <1>1, <1>6, <2>1, NewRunSound
  <2>3. run' # Idle /\ (Deleting' <=> obj.deleting)
    BY <2>2, RunFields, ObjectFields DEF Deleting, Stopping, Failed
  <2>4. StoreInv' /\ Lagging' = Lagging
    BY <1>1, <1>6, StoreUnchanged DEF Inv
  <2>5. Held(obj) /\ (Marked(obj) <=> obj.deleting) /\ Follows(device[d], obj)
    BY <1>6, <2>1 DEF Held, Marked, Inv, StoreInv, CopiesFollow
  <2>6. RunInv'
    <3>1. RunTyped'
      BY <2>2 DEF RunTyped
    <3>2. RunHeld'
      <4>1. IF Deleting' THEN Held(device[d]) => Marked(device[d]) ELSE Held(device[d])
        BY <2>3, <2>5 DEF Follows
      <4> QED
        BY <1>6, <2>2, <4>1 DEF RunHeld, Held, Marked
    <3>3. RunProgress'
      BY <2>2, <2>3 DEF RunProgress, Removed, Made, Reached
    <3>4. RunFresh'
      <4>1. d \notin Lagging => device[d] = obj /\ obj # Absent
        BY <1>6, <2>1 DEF Inv, StoreInv, Synced
      <4> QED
        BY <1>1, <1>6, <2>2, <2>3, <2>4, <4>1 DEF RunFresh
    <3> QED
      BY <3>1, <3>2, <3>3, <3>4 DEF RunInv
  <2>7. \A e \in Device : Busy(e) => Busy(e)'
    BY <1>2, <1>6, <2>2, <2>3, <2>4 DEF Busy, RunOf
  <2>8. WorkTyped' /\ Kept' /\ RestIsSettled'
    BY <1>1, <1>6, <2>7, KeptStays, RestStays DEF Inv, WorkTyped
  <2> QED
    BY <2>4, <2>6, <2>8 DEF Inv
<1> QED
  BY <1>3, <1>4, <1>5, <1>6 DEF Begin

LEMMA DeliverKeeps ==
  ASSUME Inv, Deliver, PodsTyped'
  PROVE  Inv'
<1>1. PICK d \in Device : d = Head(watch).name
  BY DeliverKeepsStore DEF Inv
<1>2. StoreInv' /\ Lagging \subseteq Lagging' \cup {d}
  BY <1>1, DeliverKeepsStore DEF Inv
<1>3. queue' = queue \cup {d} /\ UNCHANGED <<device, workload, trace, run>>
  BY <1>1 DEF Deliver
<1>4. RunInv'
  <2>1. RunTyped' /\ RunHeld' /\ RunProgress'
    BY <1>3 DEF Inv, RunInv, RunTyped, RunHeld, Held, Marked, RunProgress, Removed, Made, Mine,
                Reached, Deleting
  <2>2. run.name \notin Lagging' /\ run.name \notin queue' => run.name \notin Lagging /\ run.name \notin queue
    BY <1>2, <1>3
  <2>3. RunFresh'
    BY <1>3, <2>2 DEF Inv, RunInv, RunFresh, Deleting
  <2> QED
    BY <2>1, <2>3 DEF RunInv
<1>5. \A e \in Device : Busy(e) => Busy(e)'
  BY <1>2, <1>3 DEF Busy, RunOf
<1>6. WorkTyped' /\ Kept' /\ RestIsSettled'
  BY <1>3, <1>5, KeptStays, RestStays DEF Inv, WorkTyped
<1> QED
  BY <1>2, <1>4, <1>6 DEF Inv

LEMMA RestartKeeps ==
  ASSUME Inv, RestartOperator, PodsTyped'
  PROVE  Inv'
<1>1. run' = Idle /\ queue' = {d \in Device : device[d] # Absent} /\ UNCHANGED <<device, workload, trace>>
  BY DEF RestartOperator
<1>2. StoreInv'
  BY RestartKeepsStore DEF RestartOperator, Inv
<1>3. RunInv'
  BY <1>1 DEF RunInv, RunTyped, RunHeld, RunProgress, RunFresh
<1>4. RestIsSettled'
  BY <1>1 DEF RestIsSettled, Busy, Settled
<1>5. WorkTyped' /\ Kept'
  BY <1>1, KeptStays DEF Inv, WorkTyped
<1> QED
  BY <1>2, <1>3, <1>4, <1>5 DEF Inv

-----------------------------------------------------------------------------
(***************************************************************************)
(* Users.                                                                  *)
(***************************************************************************)
LEMMA EditConfigMapKeeps ==
  ASSUME Inv, EditConfigMap, UNCHANGED <<cached, workload, run>>, PodsTyped'
  PROVE  Inv'
<1>1. /\ trace' = ~trace /\ queue' = queue \cup {d \in Device : cached[d] # Absent}
      /\ UNCHANGED <<device, watch, cached, workload, run>>
  BY DEF EditConfigMap, mapELPConfigToDevices
<1>2. StoreInv' /\ Lagging' = Lagging
  BY <1>1, StoreUnchanged DEF Inv
<1>3. ASSUME NEW d \in Device, d \notin Lagging', d \notin queue' PROVE device[d] = Absent
  BY <1>1, <1>2, <1>3 DEF Inv, StoreInv, Synced
<1>4. RunInv'
  <2>1. RunTyped' /\ RunHeld' /\ RunProgress'
    BY <1>1 DEF Inv, RunInv, RunTyped, RunHeld, Held, Marked, RunProgress, Removed, Made, Mine,
                Reached, Deleting
  <2>2. RunFresh'
    <3> SUFFICES ASSUME run # Idle, run.name \notin Lagging', run.name \notin queue'
                 PROVE  Deleting /\ device[run.name] = Absent
      BY <1>1 DEF RunFresh, Deleting
    <3>1. run.name \in Device
      BY RunFields DEF Inv, RunInv, RunTyped
    <3>2. device[run.name] = Absent
      BY <1>3, <3>1
    <3> QED
      BY <3>2 DEF Inv, RunInv, RunHeld, Held
  <2> QED
    BY <2>1, <2>2 DEF RunInv
<1>5. RestIsSettled'
  BY <1>1, <1>3 DEF RestIsSettled, Busy, Settled
<1>6. Kept'
  BY <1>1, KeptStays DEF Inv
<1>7. WorkTyped'
  BY <1>1 DEF Inv, WorkTyped
<1> QED
  BY <1>2, <1>4, <1>5, <1>6, <1>7 DEF Inv

LEMMA CreateKeeps ==
  ASSUME Inv, NEW d \in Device, Create(d), UNCHANGED <<cached, workload, run>>, PodsTyped'
  PROVE  Inv'
<1>1. PICK backend \in {Hardware, Simulator} : Put(d, NewDevice(backend))
  BY DEF Create
<1>2. PICK new : new = NewDevice(backend)
  OBVIOUS
<1>3. new \in MaybeObject /\ KeepsHold(new, device[d]) /\ Put(d, new)
  BY <1>1, <1>2, CreatedDevice DEF Create, MaybeObject, KeepsHold, Held
<1>4. UNCHANGED <<cached, workload, trace, run, queue>>
  BY DEF Create
<1> QED
  BY <1>3, <1>4, WriteKeeps

LEMMA DeleteKeeps ==
  ASSUME Inv, NEW d \in Device, Delete(d), UNCHANGED <<cached, workload, run>>, PodsTyped'
  PROVE  Inv'
<1>1. device[d] \in Objects
  BY DEF Delete, Inv, StoreInv, StoreTyped, MaybeObject
<1>2. UNCHANGED <<cached, workload, trace, run, queue>>
  BY DEF Delete
<1>3. CASE device[d].finalizer
  <2>1. PICK new : new = [device[d] EXCEPT !.deleting = TRUE, !.generation = @ + 1]
    OBVIOUS
  <2>2. Put(d, new)
    BY <1>3, <2>1 DEF Delete
  <2>3. new \in MaybeObject /\ KeepsHold(new, device[d])
    BY <1>1, <1>3, <2>1, MarkKeeps DEF MaybeObject
  <2> QED
    BY <1>2, <2>2, <2>3, WriteKeeps
<1>4. CASE ~device[d].finalizer
  <2>1. Put(d, Absent)
    BY <1>4 DEF Delete
  <2>2. Absent \in MaybeObject /\ KeepsHold(Absent, device[d])
    BY <1>4 DEF MaybeObject, KeepsHold, Held
  <2> QED
    BY <1>2, <2>1, <2>2, WriteKeeps
<1> QED
  BY <1>3, <1>4

LEMMA EditBackendKeeps ==
  ASSUME Inv, NEW d \in Device, EditBackend(d), UNCHANGED <<cached, workload, run>>, PodsTyped'
  PROVE  Inv'
<1>1. device[d] \in Objects
  BY DEF EditBackend, Inv, StoreInv, StoreTyped, MaybeObject
<1>2. UNCHANGED <<cached, workload, trace, run, queue>>
  BY DEF EditBackend
<1>3. PICK new : new = [device[d] EXCEPT !.backend = IF @ = Hardware THEN Simulator ELSE Hardware,
                                         !.generation = @ + 1]
  OBVIOUS
<1>4. Put(d, new)
  BY <1>3 DEF EditBackend
<1>5. new \in MaybeObject /\ KeepsHold(new, device[d])
  BY <1>1, <1>3, EditKeeps DEF MaybeObject
<1> QED
  BY <1>2, <1>4, <1>5, WriteKeeps

-----------------------------------------------------------------------------
(***************************************************************************)
(* The cluster and the gateways.                                           *)
(***************************************************************************)
LEMMA OthersKeep ==
  ASSUME Inv, UNCHANGED <<storeVars, controllerVars>>, PodsTyped'
  PROVE  Inv'
<1>1. UNCHANGED <<device, cached, watch, workload, trace, queue, run>>
  BY DEF storeVars, controllerVars
<1>2. StoreInv' /\ Lagging' = Lagging
  BY <1>1, StoreUnchanged DEF Inv
<1>3. \A d \in Device : Busy(d) => Busy(d)'
  BY <1>1, <1>2 DEF Busy, RunOf
<1>4. RunInv' /\ WorkTyped' /\ Kept' /\ RestIsSettled'
  BY <1>1, <1>3, RunStays, KeptStays, RestStays DEF Inv, WorkTyped
<1> QED
  BY <1>2, <1>4 DEF Inv

(* A Deployment's readiness changes, not what there is.                    *)
SameDeployment(new, old) ==
  (new = Absent <=> old = Absent) /\ (old # Absent => new.content = old.content)

LEMMA ReadinessKeeps ==
  ASSUME Inv, NEW n \in Name, workload[n] # NoWorkload,
         NEW mine \in Workloads, workload' = [workload EXCEPT ![n] = mine],
         mine.account = workload[n].account, mine.service = workload[n].service,
         SameDeployment(mine.gateway, workload[n].gateway),
         SameDeployment(mine.simulator, workload[n].simulator),
         UNCHANGED <<device, cached, watch, trace, run, queue>>, PodsTyped'
  PROVE  Inv'
<1>1. /\ workload' \in [Name -> Workloads] /\ workload'[n] = mine
      /\ \A m \in Name \ {n} : workload'[m] = workload[m]
  BY DEF Inv, WorkTyped
<1>2. ASSUME NEW m \in Name
      PROVE  /\ workload'[m].account = workload[m].account /\ workload'[m].service = workload[m].service
             /\ SameDeployment(workload'[m].gateway, workload[m].gateway)
             /\ SameDeployment(workload'[m].simulator, workload[m].simulator)
  <2>1. CASE m = n
    BY <1>1, <2>1
  <2>2. CASE m # n
    BY <1>1, <2>2 DEF SameDeployment
  <2> QED
    BY <2>1, <2>2
<1>3. StoreInv' /\ Lagging' = Lagging
  BY StoreUnchanged DEF Inv
<1>4. RunInv'
  <2>1. RunTyped' /\ RunHeld' /\ RunFresh'
    BY <1>3 DEF Inv, RunInv, RunTyped, RunHeld, Held, Marked, RunFresh, Deleting
  <2>2. RunProgress'
    <3> SUFFICES ASSUME run # Idle PROVE IF Deleting THEN Removed(Mine') ELSE Made(Mine')
      BY DEF RunProgress, Deleting, Removed, Made, Reached
    <3>1. NameOf[run.name] \in Name
      BY MineTyped DEF Inv, RunInv, RunTyped
    <3>2. /\ Mine'.account = Mine.account /\ Mine'.service = Mine.service
          /\ SameDeployment(Mine'.gateway, Mine.gateway)
          /\ SameDeployment(Mine'.simulator, Mine.simulator)
      BY <1>2, <3>1 DEF Mine
    <3>3. IF Deleting THEN Removed(Mine) ELSE Made(Mine)
      BY DEF Inv, RunInv, RunProgress
    <3>4. PICK now : now = Mine'
      OBVIOUS
    <3>5. Removed(Mine) => Removed(now)
      BY <3>2, <3>4 DEF Removed, SameDeployment
    <3>6. Made(Mine) => Made(now)
      BY <3>2, <3>4 DEF Made, SameDeployment
    <3> QED
      BY <3>3, <3>4, <3>5, <3>6
  <2> QED
    BY <2>1, <2>2 DEF RunInv
<1>5. Kept'
  <2> SUFFICES ASSUME NEW m \in Name, NoneHeld(m)' PROVE workload'[m] = NoWorkload
    BY DEF Kept
  <2>1. NoneHeld(m) /\ workload[m] = NoWorkload
    BY DEF NoneHeld, Named, Held, Inv, Kept
  <2> QED
    BY <1>1, <2>1
<1>6. RestIsSettled'
  <2> SUFFICES ASSUME NEW e \in Device PROVE Busy(e)' \/ Settled(e)'
    BY DEF RestIsSettled
  <2>1. Busy(e) => Busy(e)'
    BY <1>3 DEF Busy, RunOf
  <2>2. NameOf[e] \in Name
    BY StoreAssumption
  <2>3. Deployed(e) => Deployed(e)'
    BY <1>2, <2>2 DEF Deployed, SameDeployment
  <2>4. Settled(e) => Settled(e)'
    BY <2>3, SettledStays
  <2> QED
    BY <2>1, <2>4 DEF Inv, RestIsSettled
<1> QED
  BY <1>1, <1>3, <1>4, <1>5, <1>6 DEF Inv, WorkTyped

LEMMA DeploymentStates ==
  ASSUME NEW contents, NEW old \in DeploymentsOf(contents), NEW state \in States,
         Absent \notin DeploymentsOf(contents)
  PROVE  LET new == [old EXCEPT !.state = state]
         IN  new \in DeploymentsOf(contents) /\ SameDeployment(new, old)
<1> DEFINE new == [old EXCEPT !.state = state]
<1>1. new \in DeploymentsOf(contents) /\ new.content = old.content
  BY DEF DeploymentsOf
<1> HIDE DEF new
<1>2. SameDeployment(new, old)
  BY <1>1 DEF SameDeployment
<1> QED
  BY <1>1, <1>2 DEF new

LEMMA ObserveGatewayKeeps ==
  ASSUME Inv, NEW n \in Name, ObserveGateway(n), UNCHANGED controllerVars, PodsTyped'
  PROVE  Inv'
<1> DEFINE w == workload[n]
<1>1. PICK state \in States : workload' = [workload EXCEPT ![n].gateway.state = state]
  BY DEF ObserveGateway
<1>2. w \in Workloads /\ w.gateway # Absent /\ workload \in [Name -> Workloads]
  BY DEF Inv, WorkTyped, ObserveGateway
<1>3. w.gateway \in DeploymentsOf(Contents) /\ Absent \notin DeploymentsOf(Contents)
  BY <1>2, NoDeploymentAssumption DEF Workloads
<1>4. PICK gateway : gateway = [w.gateway EXCEPT !.state = state]
  OBVIOUS
<1>5. gateway \in DeploymentsOf(Contents) /\ SameDeployment(gateway, w.gateway)
  BY <1>3, <1>4, DeploymentStates
<1>6. PICK mine : mine = [w EXCEPT !.gateway = gateway]
  OBVIOUS
<1>7. workload' = [workload EXCEPT ![n] = mine]
  BY <1>1, <1>4, <1>6
<1> HIDE DEF w
<1>8. /\ mine \in Workloads /\ mine.account = w.account /\ mine.service = w.service
      /\ mine.gateway = gateway /\ mine.simulator = w.simulator
  BY <1>2, <1>5, <1>6 DEF Workloads
<1>9. w # NoWorkload /\ SameDeployment(mine.simulator, w.simulator)
  BY <1>2, <1>8, NoWorkloadFields DEF SameDeployment
<1> QED
  BY <1>5, <1>7, <1>8, <1>9, ReadinessKeeps DEF w, ObserveGateway, controllerVars

LEMMA ObserveSimulatorKeeps ==
  ASSUME Inv, NEW n \in Name, ObserveSimulator(n), UNCHANGED controllerVars, PodsTyped'
  PROVE  Inv'
<1> DEFINE w == workload[n]
<1>1. workload' = [workload EXCEPT ![n].simulator.state = Ready]
  BY DEF ObserveSimulator
<1>2. w \in Workloads /\ w.simulator # Absent /\ workload \in [Name -> Workloads]
  BY DEF Inv, WorkTyped, ObserveSimulator
<1>3. w.simulator \in DeploymentsOf(BOOLEAN) /\ Absent \notin DeploymentsOf(BOOLEAN)
  BY <1>2, NoDeploymentAssumption DEF Workloads
<1>4. PICK simulator : simulator = [w.simulator EXCEPT !.state = Ready]
  OBVIOUS
<1>5. simulator \in DeploymentsOf(BOOLEAN) /\ SameDeployment(simulator, w.simulator)
  <2>1. Ready \in States
    BY DEF States
  <2> QED
    BY <1>3, <1>4, <2>1, DeploymentStates
<1>6. PICK mine : mine = [w EXCEPT !.simulator = simulator]
  OBVIOUS
<1>7. workload' = [workload EXCEPT ![n] = mine]
  BY <1>1, <1>4, <1>6
<1> HIDE DEF w
<1>8. /\ mine \in Workloads /\ mine.account = w.account /\ mine.service = w.service
      /\ mine.gateway = w.gateway /\ mine.simulator = simulator
  BY <1>2, <1>5, <1>6 DEF Workloads
<1>9. w # NoWorkload /\ SameDeployment(mine.gateway, w.gateway)
  BY <1>2, <1>8, NoWorkloadFields DEF SameDeployment
<1> QED
  BY <1>5, <1>7, <1>8, <1>9, ReadinessKeeps DEF w, ObserveSimulator, controllerVars

LEMMA PodChanges ==
  ASSUME PodsTyped, NEW n \in Name, NEW new \in Pods \cup {Absent}, pod' = [pod EXCEPT ![n] = new],
         UNCHANGED <<rbac, answers, queue>>
  PROVE  PodsTyped'
BY DEF PodsTyped

LEMMA PodFields ==
  ASSUME NEW p \in Pods
  PROVE  /\ p.content \in Contents /\ p.content.of \in Device /\ p.tracker \in Trackers
         /\ p.patch \in Patches
         /\ p.patch.pending => p.patch.rewrites \in BOOLEAN /\ p.patch.conditions \in Lists
<1>1. p.content \in Contents /\ p.content.of \in Device /\ p.tracker \in Trackers /\ p.patch \in Patches
  BY DEF Pods, Contents
<1>2. CASE p.patch = NoPatch
  BY <1>1, <1>2 DEF NoPatch
<1>3. CASE p.patch \in [pending : {TRUE}, rewrites : BOOLEAN, conditions : Lists]
  BY <1>1, <1>3
<1> QED
  BY <1>1, <1>2, <1>3 DEF Patches

LEMMA StartPodKeeps ==
  ASSUME Inv, NEW n \in Name, StartPod(n), UNCHANGED controllerVars
  PROVE  Inv'
<1>1. PICK content \in Contents : pod' = [pod EXCEPT ![n] = NewPod(content)]
  BY DEF StartPod, Inv, WorkTyped, Workloads, DeploymentsOf
<1>2. NewTracker \in Trackers
  BY DEF NewTracker, Trackers
<1>3. NewPod(content) \in Pods
  BY <1>2 DEF NewPod, Pods, Patches
<1>4. PodsTyped'
  BY <1>1, <1>3, PodChanges DEF Inv, StartPod, storeVars, controllerVars
<1> QED
  BY <1>4, OthersKeep DEF StartPod

LEMMA PodEndsKeeps ==
  ASSUME Inv, NEW n \in Name, StopPod(n) \/ PodDies(n), UNCHANGED controllerVars
  PROVE  Inv'
<1>1. pod' = [pod EXCEPT ![n] = Absent] /\ UNCHANGED <<storeVars, answers>>
  BY DEF StopPod, PodDies
<1>2. PodsTyped'
  BY <1>1, PodChanges DEF Inv, storeVars, controllerVars
<1> QED
  BY <1>1, <1>2, OthersKeep

LEMMA PatchDropped ==
  ASSUME Inv, NEW n \in Name, pod[n] # Absent, pod' = [pod EXCEPT ![n].patch = NoPatch],
         UNCHANGED <<rbac, answers, queue>>
  PROVE  PodsTyped'
<1>1. pod[n] \in Pods
  BY DEF Inv, PodsTyped
<1>2. PICK new : new = [pod[n] EXCEPT !.patch = NoPatch]
  OBVIOUS
<1>3. new \in Pods
  BY <1>1, <1>2 DEF Pods, Patches
<1>4. pod' = [pod EXCEPT ![n] = new]
  BY <1>2
<1> QED
  BY <1>3, <1>4, PodChanges DEF Inv

LEMMA PatchLostKeeps ==
  ASSUME Inv, NEW n \in Name, PatchLost(n), UNCHANGED controllerVars
  PROVE  Inv'
<1>1. PodsTyped'
  BY PatchDropped DEF PatchLost, storeVars, controllerVars
<1> QED
  BY <1>1, OthersKeep DEF PatchLost

LEMMA TickKeeps ==
  ASSUME Inv, NEW n \in Name, Tick(n), UNCHANGED controllerVars
  PROVE  Inv'
<1> DEFINE obj == device[Served(n)]
           t == record(pod[n].tracker, Served(n) \in answers)
<1>1. pod[n] \in Pods /\ Served(n) \in Device
  BY PodFields DEF Tick, Inv, PodsTyped, Served
<1>2. obj \in Objects
  BY <1>1 DEF Tick, MayPatch, Inv, StoreInv, StoreTyped, MaybeObject
<1>3. t \in Trackers
  <2>1. \E success \in BOOLEAN : t = record(pod[n].tracker, success)
    BY DEF record
  <2>2. pod[n].tracker \in Trackers
    BY <1>1, PodFields
  <2> QED
    BY <2>1, <2>2, TrackerSound
<1>4. PICK patch : patch = [pending |-> TRUE, rewrites |-> ListRewritten(obj, t),
                            conditions |-> HealthConditions(obj, t)]
  OBVIOUS
<1>5. patch \in Patches
  <2>1. HealthConditions(obj, t) \in Lists
    BY <1>2, <1>3, HealthList
  <2>2. ListRewritten(obj, t) \in BOOLEAN
    BY DEF ListRewritten
  <2> HIDE DEF obj, t
  <2> QED
    BY <1>4, <2>1, <2>2 DEF Patches
<1>6. pod' = [pod EXCEPT ![n].tracker = t, ![n].patch = patch]
  BY <1>4 DEF Tick, Changed
<1> HIDE DEF obj, t
<1>7. PICK new : new = [pod[n] EXCEPT !.tracker = t, !.patch = patch]
  OBVIOUS
<1>8. new \in Pods
  BY <1>1, <1>3, <1>5, <1>7 DEF Pods
<1>9. pod' = [pod EXCEPT ![n] = new]
  BY <1>6, <1>7
<1>10. PodsTyped'
  BY <1>8, <1>9, PodChanges DEF Inv, Tick, storeVars, controllerVars
<1> QED
  BY <1>10, OthersKeep DEF Tick

LEMMA RunKeeps ==
  ASSUME Inv, NEW n \in Name, Run(n), UNCHANGED controllerVars
  PROVE  Inv'
<1>1. pod[n] \in Pods /\ Served(n) \in Device
  BY PodFields DEF Run, Inv, PodsTyped, Served
<1>2. UNCHANGED <<cached, workload, rbac, trace, answers, queue, run>>
  BY DEF Run, controllerVars
<1>3. PICK to \in {"started", "dialing", "bridged"} : pod' = [pod EXCEPT ![n].session = to]
  BY DEF Run, Session
<1>4. PICK seen \in {"answered", "silent"} : UpdateSession(n, seen)
  BY DEF Run, markZ21Connected, markZ21Disconnected
<1>5. PodsTyped'
  <2>1. PICK new : new = [pod[n] EXCEPT !.session = to]
    OBVIOUS
  <2>2. new \in Pods
    BY <1>1, <2>1 DEF Pods
  <2>3. pod' = [pod EXCEPT ![n] = new]
    BY <1>3, <2>1
  <2> QED
    BY <1>2, <2>2, <2>3, PodChanges DEF Inv
<1>6. CASE MayPatch(n)
  <2>1. PICK d \in Device : d = Served(n)
    BY <1>1
  <2>2. device[d] \in Objects
    BY <1>6, <2>1 DEF MayPatch, Inv, StoreInv, StoreTyped, MaybeObject
  <2>3. PICK new : new = [device[d] EXCEPT !.status.lastSeen = seen]
    OBVIOUS
  <2>4. Put(d, new)
    BY <1>4, <1>6, <2>1, <2>3 DEF UpdateSession
  <2>5. new \in MaybeObject /\ KeepsHold(new, device[d])
    BY <2>2, <2>3, SessionKeeps DEF MaybeObject
  <2> QED
    BY <1>2, <1>5, <2>4, <2>5, WriteKeeps
<1>7. CASE ~MayPatch(n)
  <2>1. UNCHANGED <<storeVars, controllerVars>>
    BY <1>2, <1>4, <1>7 DEF UpdateSession, storeVars, controllerVars
  <2> QED
    BY <1>5, <2>1, OthersKeep
<1> QED
  BY <1>6, <1>7

LEMMA UpdateHealthKeeps ==
  ASSUME Inv, NEW n \in Name, UpdateHealth(n), UNCHANGED controllerVars
  PROVE  Inv'
<1>1. pod[n] \in Pods /\ Served(n) \in Device
  BY PodFields DEF UpdateHealth, Inv, PodsTyped, Served
<1>2. UNCHANGED <<cached, workload, rbac, trace, answers, queue, run>>
  BY DEF UpdateHealth, controllerVars
<1>3. PICK patch : patch = pod[n].patch
  OBVIOUS
<1>4. patch.rewrites \in BOOLEAN /\ patch.conditions \in Lists
  BY <1>1, <1>3, PodFields DEF UpdateHealth
<1>5. PodsTyped'
  BY <1>2, PatchDropped DEF UpdateHealth
<1>6. CASE MayPatch(n)
  <2>1. PICK d \in Device : d = Served(n)
    BY <1>1
  <2>2. device[d] \in Objects
    BY <1>6, <2>1 DEF MayPatch, Inv, StoreInv, StoreTyped, MaybeObject
  <2>3. PICK new : new = [device[d] EXCEPT !.status.conditions =
                            IF patch.rewrites THEN patch.conditions ELSE @]
    OBVIOUS
  <2>4. Put(d, new)
    BY <1>3, <1>6, <2>1, <2>3 DEF UpdateHealth
  <2>5. new \in MaybeObject /\ KeepsHold(new, device[d])
    BY <1>4, <2>2, <2>3, HealthKeeps DEF MaybeObject
  <2> QED
    BY <1>2, <1>5, <2>4, <2>5, WriteKeeps
<1>7. CASE ~MayPatch(n)
  <2>1. UNCHANGED <<storeVars, controllerVars>>
    BY <1>2, <1>7 DEF UpdateHealth, storeVars, controllerVars
  <2> QED
    BY <1>5, <2>1, OthersKeep
<1> QED
  BY <1>6, <1>7

-----------------------------------------------------------------------------
(***************************************************************************)
(* Every step keeps the invariant.                                         *)
(***************************************************************************)
LEMMA InvInit ==
  ASSUME Init
  PROVE  Inv
<1>1. /\ device = [d \in Device |-> Absent] /\ cached = device /\ watch = <<>>
      /\ workload = [n \in Name |-> NoWorkload] /\ rbac = {} /\ trace = FALSE /\ queue = {}
      /\ run = Idle /\ pod = [n \in Name |-> Absent] /\ answers \subseteq Device
  BY DEF Init, ControllerInit, GatewayInit
<1>2. watch \in Seq(Events) /\ DOMAIN watch = {}
  BY <1>1
<1>3. StoreInv
  <2>1. StoreTyped
    BY <1>1, <1>2 DEF StoreTyped, MaybeObject
  <2>2. Synced /\ CopiesFollow
    BY <1>1, <1>2 DEF Synced, Lagging, CopiesFollow, Follows
  <2> QED
    BY <2>1, <2>2 DEF StoreInv
<1>4. RunInv
  BY <1>1 DEF RunInv, RunTyped, RunHeld, RunProgress, RunFresh
<1>5. WorkTyped /\ Kept /\ PodsTyped
  <2>1. NoWorkload \in Workloads
    BY DEF NoWorkload, Workloads
  <2>2. WorkTyped
    BY <1>1, <2>1 DEF WorkTyped
  <2>3. Kept
    BY <1>1 DEF Kept
  <2>4. PodsTyped
    BY <1>1 DEF PodsTyped
  <2> QED
    BY <2>2, <2>3, <2>4
<1>6. RestIsSettled
  BY <1>1 DEF RestIsSettled, Settled
<1> QED
  BY <1>3, <1>4, <1>5, <1>6 DEF Inv

LEMMA SetsKeepPods ==
  ASSUME PodsTyped, UNCHANGED gatewayVars, rbac' \subseteq Device, queue' \subseteq Device
  PROVE  PodsTyped'
BY DEF PodsTyped, gatewayVars

LEMMA WorkloadSets ==
  ASSUME PodsTyped, run \in Runs, WorkloadStep, UNCHANGED gatewayVars
  PROVE  PodsTyped'
<1>1. queue' = queue
  BY DEF WorkloadStep, reconcileGatewayServiceAccount, reconcileGatewayRBAC, reconcileSimulatorService,
         reconcileSimulatorDeployment, reconcileGatewayDeployment, deleteGateway, deleteSimulator, Goto
<1>2. rbac' = rbac \/ rbac' = rbac \cup {run.name}
  BY DEF WorkloadStep, reconcileGatewayServiceAccount, reconcileGatewayRBAC, reconcileSimulatorService,
         reconcileSimulatorDeployment, reconcileGatewayDeployment, deleteGateway, deleteSimulator
<1>3. run.name \in Device
  BY RunFields
<1> QED
  BY <1>1, <1>2, <1>3, SetsKeepPods DEF PodsTyped

LEMMA ReconcileKeeps ==
  ASSUME Inv, StepReconcile
  PROVE  Inv'
<1>1. run # Idle
  BY DEF Idle, StepReconcile, ReconcileStep, WorkloadStep, reconcileGatewayServiceAccount,
         reconcileGatewayRBAC, reconcileSimulatorService, reconcileSimulatorDeployment,
         reconcileGatewayDeployment, deleteGateway, deleteSimulator, updateStatus, RemoveFinalizer, At
<1>2. run \in Runs /\ run.name \in Device /\ PodsTyped /\ rbac \subseteq Device /\ queue \subseteq Device
  BY <1>1, RunFields DEF Inv, RunInv, RunTyped, PodsTyped
<1>3. UNCHANGED gatewayVars
  BY DEF StepReconcile
<1>4. CASE WorkloadStep
  BY <1>2, <1>3, <1>4, WorkloadSets, WorkloadStepKeeps
<1>5. CASE updateStatus
  <2>1. rbac' = rbac /\ (queue' = queue \/ queue' = queue \cup {run.name})
    BY <1>5 DEF updateStatus, Requeue, StatusDone, Goto, Finish
  <2>2. PodsTyped'
    BY <1>2, <1>3, <2>1, SetsKeepPods
  <2> QED
    BY <1>2, <1>5, <2>2, UpdateStatusKeeps
<1>6. CASE RemoveFinalizer
  <2>1. queue' = queue \/ queue' = queue \cup {run.name}
    BY <1>6 DEF RemoveFinalizer, Requeue, Finish
  <2>2. rbac' = rbac \/ rbac' = rbac \ {run.name}
    BY <1>6 DEF RemoveFinalizer, Collect
  <2>3. PodsTyped'
    BY <1>2, <1>3, <2>1, <2>2, SetsKeepPods
  <2> QED
    BY <1>2, <1>6, <2>3, RemoveFinalizerKeeps
<1> QED
  BY <1>4, <1>5, <1>6 DEF StepReconcile, ReconcileStep

LEMMA UserKeeps ==
  ASSUME Inv, UserEdits
  PROVE  Inv'
<1>1. UNCHANGED <<cached, workload, rbac, run, gatewayVars>> /\ PodsTyped
  BY DEF UserEdits, Inv
<1>2. CASE \E d \in Device : Create(d) \/ Delete(d) \/ EditBackend(d)
  <2>1. PICK d \in Device : Create(d) \/ Delete(d) \/ EditBackend(d)
    BY <1>2
  <2>2. queue' = queue
    BY <2>1 DEF Create, Delete, EditBackend
  <2>3. PodsTyped'
    BY <1>1, <2>2, SetsKeepPods DEF PodsTyped
  <2> QED
    BY <1>1, <2>1, <2>3, CreateKeeps, DeleteKeeps, EditBackendKeeps
<1>3. CASE EditConfigMap
  <2>1. queue' \subseteq Device
    BY <1>1, <1>3 DEF PodsTyped, EditConfigMap, mapELPConfigToDevices
  <2>2. PodsTyped'
    BY <1>1, <2>1, SetsKeepPods DEF PodsTyped
  <2> QED
    BY <1>1, <1>3, <2>2, EditConfigMapKeeps
<1> QED
  BY <1>2, <1>3 DEF UserEdits

LEMMA OutageKeeps ==
  ASSUME Inv, NEW d \in Device, Outage(d)
  PROVE  Inv'
<1>1. PodsTyped'
  BY DEF Outage, Inv, PodsTyped, storeVars, controllerVars
<1> QED
  BY <1>1, OthersKeep DEF Outage

LEMMA FaultsKeep ==
  ASSUME Inv, Faults
  PROVE  Inv'
<1>1. PodsTyped /\ rbac \subseteq Device /\ queue \subseteq Device
  BY DEF Inv, PodsTyped
<1>2. CASE CallFails /\ UNCHANGED gatewayVars
  <2>1. run.name \in Device
    BY <1>2, RunFields DEF CallFails, Inv, RunInv, RunTyped
  <2>2. rbac' = rbac /\ (queue' = queue \/ queue' = queue \cup {run.name})
    BY <1>2 DEF CallFails, storeVars, Requeue, FailedWorkload
  <2>3. PodsTyped'
    BY <1>1, <1>2, <2>1, <2>2, SetsKeepPods
  <2> QED
    BY <1>2, <2>3, CallFailsKeeps
<1>3. CASE RestartOperator /\ UNCHANGED gatewayVars
  <2>1. rbac' = rbac /\ queue' \subseteq Device
    BY <1>3 DEF RestartOperator
  <2>2. PodsTyped'
    BY <1>1, <1>3, <2>1, SetsKeepPods
  <2> QED
    BY <1>3, <2>2, RestartKeeps
<1>4. CASE (\E n \in Name : PatchLost(n) \/ PodDies(n)) /\ UNCHANGED controllerVars
  BY <1>4, PatchLostKeeps, PodEndsKeeps
<1> QED
  BY <1>2, <1>3, <1>4 DEF Faults

LEMMA GatewayKeepsInv ==
  ASSUME Inv, NEW n \in Name, Gateway(n) \/ Cluster(n)
  PROVE  Inv'
<1>1. UNCHANGED controllerVars
  BY DEF Gateway, Cluster
<1>2. CASE GatewayStep(n)
  BY <1>1, <1>2, RunKeeps, TickKeeps, UpdateHealthKeeps DEF GatewayStep
<1>3. CASE StartPod(n) \/ StopPod(n)
  BY <1>1, <1>3, StartPodKeeps, PodEndsKeeps
<1>4. CASE ObserveGateway(n) \/ ObserveSimulator(n)
  <2>1. UNCHANGED <<gatewayVars, rbac, queue>>
    BY <1>1, <1>4 DEF ObserveGateway, ObserveSimulator, controllerVars
  <2>2. PodsTyped'
    BY <2>1 DEF Inv, PodsTyped, gatewayVars
  <2> QED
    BY <1>1, <1>4, <2>2, ObserveGatewayKeeps, ObserveSimulatorKeeps
<1> QED
  BY <1>2, <1>3, <1>4 DEF Gateway, Cluster, ClusterStep

LEMMA InvStep ==
  ASSUME Inv, [Next]_vars
  PROVE  Inv'
<1>1. PodsTyped /\ rbac \subseteq Device /\ queue \subseteq Device
  BY DEF Inv, PodsTyped
<1>2. CASE UserEdits
  BY <1>2, UserKeeps
<1>3. ASSUME NEW d \in Device, Outage(d) PROVE Inv'
  BY <1>3, OutageKeeps
<1>4. ASSUME NEW d \in Device, StartReconcile(d) PROVE Inv'
  <2>1. Begin(d) /\ UNCHANGED gatewayVars
    BY <1>4 DEF StartReconcile
  <2>2. rbac' = rbac /\ queue' \subseteq queue
    BY <2>1 DEF Begin
  <2>3. PodsTyped'
    BY <1>1, <2>1, <2>2, SetsKeepPods
  <2> QED
    BY <2>1, <2>3, BeginKeeps
<1>5. CASE Informer
  <2>1. Deliver /\ UNCHANGED gatewayVars
    BY <1>5 DEF Informer
  <2>2. rbac' = rbac /\ queue' \subseteq Device
    BY <1>1, <2>1, DeliverKeepsStore DEF Deliver, Inv
  <2>3. PodsTyped'
    BY <1>1, <2>1, <2>2, SetsKeepPods
  <2> QED
    BY <2>1, <2>3, DeliverKeeps
<1>6. CASE StepReconcile
  BY <1>6, ReconcileKeeps
<1>7. ASSUME NEW n \in Name, Gateway(n) \/ Cluster(n) PROVE Inv'
  BY <1>7, GatewayKeepsInv
<1>8. CASE Faults
  BY <1>8, FaultsKeep
<1>9. CASE UNCHANGED vars
  <2>1. UNCHANGED <<storeVars, controllerVars, gatewayVars>>
    BY <1>9 DEF vars
  <2>2. PodsTyped'
    BY <1>1, <2>1, SetsKeepPods DEF storeVars, controllerVars
  <2> QED
    BY <2>1, <2>2, OthersKeep
<1> QED
  BY <1>2, <1>3, <1>4, <1>5, <1>6, <1>7, <1>8, <1>9 DEF Next

LEMMA InvHolds == Spec => []Inv
<1>1. Init => Inv
  BY InvInit
<1>2. Inv /\ [Next]_vars => Inv'
  BY InvStep
<1> QED
  BY <1>1, <1>2, PTL DEF Spec

-----------------------------------------------------------------------------
(***************************************************************************)
(* What follows from it.                                                   *)
(***************************************************************************)

(* Objects, copies, workloads, the running reconcile and the gateways hold *)
(* only what the code puts into them, and a device is marked as deleted    *)
(* only while it has its finalizer.                                        *)
THEOREM Types == Spec => []TypeOK
<1>1. Inv => TypeOK
  <2> SUFFICES ASSUME Inv PROVE TypeOK
    OBVIOUS
  <2>1. \A obj \in MaybeObject : DeviceOK(obj)
    BY ObjectsAreDevices DEF MaybeObject, DeviceOK, Objects
  <2>2. ASSUME NEW d \in Device PROVE DeviceOK(device[d]) /\ DeviceOK(cached[d])
    BY <2>1 DEF Inv, StoreInv, StoreTyped
  <2>3. ASSUME NEW n \in Name
        PROVE  /\ workload[n].gateway \in DeploymentsOf(Contents) \cup {Absent}
               /\ workload[n].simulator \in DeploymentsOf(BOOLEAN) \cup {Absent}
               /\ pod[n] # Absent => pod[n].content \in Contents
    BY DEF Inv, WorkTyped, Workloads, PodsTyped, Pods
  <2>4. rbac \subseteq Device /\ answers \subseteq Device /\ queue \subseteq Device
    BY DEF Inv, PodsTyped
  <2>5. run # Idle => run.name \in Device
    BY RunFields DEF Inv, RunInv, RunTyped
  <2> QED
    BY <2>2, <2>3, <2>4, <2>5 DEF TypeOK
<1> QED
  BY <1>1, InvHolds, PTL

(* A deleted device leaves no workload of its name behind: the finalizer   *)
(* keeps it until the workloads are gone, whatever fails and whenever the  *)
(* operator stops, and no reconcile that worked from an old copy of it     *)
(* makes one afterwards.                                                   *)
THEOREM NothingIsOrphaned == Spec => []NoOrphans
<1>1. Inv => NoOrphans
  BY DEF Inv, NoOrphans, Kept, NoneHeld, Held
<1> QED
  BY <1>1, InvHolds, PTL

(* No device is shown reachable and degraded at once: each writer replaces *)
(* the list of conditions whole, with a list that never had both.          *)
THEOREM HealthIsConsistent == Spec => []NeverReachableAndDegraded
<1>1. Inv => NeverReachableAndDegraded
  <2> SUFFICES ASSUME Inv, NEW d \in Device,
                      Shows(device[d], DeviceReachable), Shows(device[d], Degraded)
               PROVE  FALSE
    BY DEF NeverReachableAndDegraded
  <2>1. device[d] \in Objects
    BY DEF Inv, StoreInv, StoreTyped, MaybeObject, Shows
  <2>2. device[d].status.conditions \in Lists
    BY <2>1, ObjectFields DEF Statuses
  <2> QED
    BY <2>2 DEF Lists, Shown, Shows
<1> QED
  BY <1>1, InvHolds, PTL

LEMMA QuietIsSettled ==
  ASSUME Inv, Quiet, NEW d \in Device
  PROVE  Settled(d)
<1>1. Lagging = {}
  BY DEF Quiet, Lagging
<1> QED
  BY <1>1 DEF Quiet, Busy, RunOf, Inv, RestIsSettled

(* With no event, no queued device and no reconcile left, every device has *)
(* its finalizer, none is marked, and each status observed the latest      *)
(* generation: an edit during a reconcile is always followed by another.   *)
THEOREM RestIsDone == Spec => []NothingLeftToDo
<1>1. Inv => NothingLeftToDo
  BY QuietIsSettled DEF NothingLeftToDo, Settled
<1> QED
  BY <1>1, InvHolds, PTL

(* With nothing left to do, a device shown as running has its condition    *)
(* GatewayReady true, although the gateway replaces the list of conditions *)
(* from a copy of its own.                                                 *)
THEOREM PhasesAgree == Spec => []PhaseAgrees
<1>1. Inv => PhaseAgrees
  BY QuietIsSettled DEF PhaseAgrees, Settled, Shows, Shown
<1> QED
  BY <1>1, InvHolds, PTL

(* With nothing left to do, a device shown as starting or running has the  *)
(* workloads of its latest spec and of the current trace flag, provided    *)
(* that no other namespace has a device of its name: two of one name take  *)
(* one another's workloads.                                                *)
THEOREM WorkloadsAreCurrent ==
  ASSUME OneDevicePerName
  PROVE  Spec => []WorkloadCurrent
<1>1. Inv => WorkloadCurrent
  BY QuietIsSettled DEF WorkloadCurrent, Settled
<1> QED
  BY <1>1, InvHolds, PTL

=============================================================================
