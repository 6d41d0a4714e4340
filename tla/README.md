# TLA+ models of elp

elp runs Z21 model-railway command stations from Kubernetes. This directory
holds TLA+ modules that model its stateful parts, TLC configurations that check
them on small instances, and theorems about them with proofs for TLAPS. Every
definition is translated from the Go source; `PROJECT.json` maps each one to
the lines it stands for.

1. [The system](#1-the-system): an inventory
2. [Modules](#2-modules): what each one models, and how
3. [Runs](#3-runs): what is checked, on which instance, and why it is enough
4. [Fairness](#4-fairness)
5. [Proofs](#5-proofs)
6. [What the checks found](#6-what-the-checks-found)
7. [What is not modelled](#7-what-is-not-modelled)
8. [Plan](#8-plan)

To check a run: `tlc -config Addressing.cfg MCAddressing`. To check the proofs
of a module: `tlapm PoolObjectProofs.tla`.

## 1. The system

    users ── kubectl ─────────────┐                      ┌── CAN modules
      │                           ▼                      │
      └─ elpctl ── HTTP/SSE ── API server ─┐           Z21 station or z21-sim
                                 │  ▲      │             ▲
                     control     │  │ watch│             │ UDP
                     over NATS   ▼  │      ▼             │
                          Kubernetes API server ◄──── z21-gateway (one per device)
                                 ▲                       ▲
                                 │ watch, write          │ deploys
                                 └── operator z21-device ┘
                                 └── operator z21-sim-controller ── gRPC ── z21-sim

Almost everything meets in the objects of the Kubernetes API server:
`Z21Device`, `CANDetector`, `CANAddressPool` and `Simulation`, in whose
`spec` one party writes what it wants and in whose `status` another says what
is. The hard behaviour comes from there: several writers of one object, copies
that are older than the object, and a process that stops between two calls.

### CAN address pool (`packages/canpool`)

State: a configuration (range, reserved addresses) and two maps, owner to
address and back. Operations: `New`, `Validate`, `Rebuild`, `Allocate`, `Claim`,
`Release`, `ReleaseAddress`, queries and `Stats`. Called by the operator, which
rebuilds a pool on every reconcile. Hard: calls that fail half way; reserved
addresses, which may be claimed but not allocated. Correct when the maps stay
inverse, nobody is moved by an allocation, and a pool can be rebuilt from its
own assignments.

### CANDetector controller (`operators/z21-device`, `candetector_*.go`)

State: informer caches of detectors, devices and pools; a work queue; one
worker. Operation: `Reconcile` reads detector, device, pool and the detectors of
the pool from its caches, rebuilds the pool, and writes the detector's spec, its
status and the pool's status, in this order; event handlers queue detectors when
a device or pool changes. Hard: caches that miss the operator's own last write,
conflicts, lost answers, restarts between the three writes, the gateway's writes
of the same status. Correct when addresses are unique and stay, reserved ones
are only adopted, and every module ends up with its address.

### Detector manager of the gateway (`apps/z21-gateway/internal/detector`)

State: what it is doing (one thread), reports waiting in its socket. Operations:
upsert of a reported module (create or patch, then a status patch), and
`ReconcileAddresses`, which lists the detectors and for each either marks it
applied or programs the module, polls it and patches the status. Hard: reports
older than the address just programmed, the operator moving the phase back,
requests that fail half way. Correct when phase Applied is only shown for a
module that has its address, and comes back.

### Z21Device controller (`z21device_controller.go`)

State: an informer cache, a queue. Operation: `Reconcile` adds a finalizer, makes
ServiceAccount, RBAC, the simulator's Service and Deployment and the gateway's
Deployment (or deletes the simulator's), and patches the status; on deletion it
deletes the workloads and removes the finalizer. Woken by device events and the
ConfigMap. Hard: a stop or failure between any two calls, edits meanwhile, and
`status.conditions`, a list that the gateway replaces too. Correct when nothing
is left of a deleted device, deletion ends, no edit is lost, and the conditions
settle on what is true.

### Gateway: session and health (`internal/gateway`, `internal/status`)

State: the session with the Z21, the health tracker's counts. Operations: dial,
handshake, bridge, redial; a probe each interval; `UpdateSession` and
`UpdateHealth`, each Get then Patch. Hard: patches computed from a copy that is
old by the time they arrive.

### Broadcast flags (API `PATCH`, NATS control subject, gateway session)

State: the spec's flags, the session's, the Z21's. A PATCH writes the spec and
publishes a command; the gateway reads the spec when it starts, subscribes,
and sends the flags on each command and each handshake. Hard: overlapping
requests, commands during a start or a handshake, datagrams without an answer.

### API server: device stream; elpctl's watch

State: an informer's store, the hub's subscribers and their channels of 32
events, a handler per connection; the client's view. Hard: clients that come,
go and stall while events are published; a full channel; a lost watch.

### Simulator (`apps/z21-sim/internal/server`)

State: sessions with their broadcast flags, track power, a registry of CAN
devices, all under one lock that is taken for single reads and writes. One
thread reads UDP packets and handles the messages of each; gRPC calls run on
threads of their own. Operations: flags, log off, power, status, poll, module
address, description, booster power; over gRPC registration of a CAN device,
power, and a system-state broadcast. Hard: a change and its announcement are
separate steps, so that two threads announce in another order than they
changed; a registration falls between a poll and its answer; a restarted
simulator has forgotten everything. Correct when subscribers hear of every
change and what they hear last holds.

### Simulation controller (`operators/z21-sim-controller`)

State: an informer cache, a queue, one worker. Operation: `Reconcile` reads the
simulation and its device, calls the simulator once for each detector and
booster, and updates the status with the phase and the count of calls that
succeeded. A failure becomes the status Failed and no error. Only Simulation
objects wake it. Hard: a call that fails half way, an old copy, a conflict, a
restart between the calls and the status. Correct when the status counts what
is there, and what is asked for gets to the simulator.

### API server: simulate endpoint (`apps/api/internal/api/simulations.go`)

No state of its own. A request reads device and simulation, and creates the
simulation or patches the list of detectors merged from the copy it read and
its own. Hard: two requests merge into the same old list, users delete the
simulation meanwhile. Correct when what was answered stays.

### The rest

- **API server, other endpoints**: create, read, list, delete are single calls.
- **elpctl**: `simulate can` makes the list of a simulate request, `device watch`
  keeps the view of the stream; other commands are one HTTP request each, and
  its configuration is files.
- **Entry points, tracing, manifests, generated code**: no state of their own.

`PROJECT.json` lists the components with their sources and status, and 40
hazards at their lines, each with the properties that would catch it, or with a
note that says why none does: what a property excepts or assumes, it does not
catch.

## 2. Modules

    CANPool ── PoolObject ─(implements)─► AddressBook
       │           └── PoolObjectProofs (CANPoolProofs)
       └── DetectorStore ──┬── CANDetectorController ──┐
           (ApiServer)     └── DetectorManager ────────┴── CANAddressing ─(implements)─► AddressAllocation
                                                              └── CANAddressingProofs (CANPoolProofs)
    ApiServer ── DeviceObject ── DeviceController ── GatewayProcess ── DeviceLifecycle
                                                                          └── DeviceLifecycleProofs
    DeviceStream ── DeviceStreamProofs
    BroadcastFlags ── BroadcastFlagsProofs
    SimulatorCAN ── SimulatorServer ──┐        ┌── SimulateRequests ─────┐
                         ApiServer ───┴── SimulationStore                ├── SimulationLifecycle
                                               └── SimulationController ─┘        └── SimulationProofs
    SimulatorServer ── SimulatorProofs ── SimulationProofs

### The pool

**CANPool** has the package's operations as operators on pool records
`[cfg, ownerByAddr, addrByOwner]`; each returns the pool it leaves and an
error. `Rebuild` is written without recursion, from the set of accepted entries,
so that it can be proved about. The code's checks depend on their order, the
first that fails names the error: they are chains of IF, never arms of a CASE
that overlap. **PoolObject** calls them in any order with any
arguments, the refused ones included; `op` remembers the operation.
**AddressBook** is the abstract specification: a book from owners to addresses
in which an allocation enters the lowest free unreserved address, a claim any
free one, and only a release or a rebuild takes one away. The refinement maps
the book to `addrByOwner`: `ownerByAddr` is redundant, which is what
`MapsInverse` says.

### CAN addressing

**ApiServer** has the merge patch of `client.MergeFrom`: the fields in which
the new object differs from the copy it was made from replace the server's, a
list whole; and it is never refused for being old. **DetectorStore** has the
objects, one watch stream per kind (`watch`, at most `MaxLag` undelivered
events), and `current`, the objects whose latest `resourceVersion` the running
reconcile holds, which is what decides whether an `Update` conflicts.

**CANDetectorController**: `Deliver*` and `map*` are the informers with their
handlers. A reconcile is `Begin` (the Gets), `ListAndAllocate` (list and
allocation, over the caches), then `UpdateSpec`, `UpdateStatus`,
`UpdatePoolStatus`, or `PatchFailed`; `Conflict` ends it with an error. It is
cut where something else can happen in between: before the list, because the
informers may have moved on since the Gets, and before each write. `Update`'s
answer is decoded over the local object (`DecodedInto`), as the Go client does.
The cache lists its objects in no fixed order, so every order of the
assignments is tried. `WriteRefused`, `AnswerLost` and `RestartOperator` may
come at any step.

**DetectorManager**: `UpsertDiscovered` and `PatchObserved` are the two requests
of an upsert; `ReconcileAddresses` lists, `MarkApplied`, `SetModuleAddress` and
`PatchPolled` handle one listed object; the listed copies get old meanwhile.
`reports` holds reports in flight, so that a poll may be answered by one that
was sent before the address changed. The bus reports on its own
(`ModuleReports`, external).

**CANAddressing** puts them together with the users and the properties.
**AddressAllocation** is what the whole promises: a detector gets one free
address of the range, a reserved one only if its module has it and asks to keep
it, and holds it until forgotten. `held` is mapped to the address a detector's
object stands for, `wants` to the observed address of one that may adopt.

Abstractions: a detector's name, namespace and netID are one identity, as each
determines the others; the several CAN packets of one module are one report;
messages are told apart, not spelt.

### Device lifecycle

**DeviceObject** has the object and the status computations of both writers:
`computePhase`, `deviceStatusIsCurrent`, `OperatorStatus`; and the health
tracker with `HealthConditions`. Conditions are a function from type to
`[status, generation]`; reason and message follow from these, except that an
unreachable device's message counts its failed probes (`ListRewritten`).

**DeviceController** has one step per call: `Begin` (with the finalizer),
`reconcileGatewayServiceAccount`, `reconcileGatewayRBAC`, ..., `updateStatus`,
`deleteGateway`, `deleteSimulator`, `RemoveFinalizer` (which leaves an object
without a finalizer, `Unfinalized`, or removes one marked as deleted).
`updateStatus` reads the
cache again and patches the difference between that copy and the new status:
an old list of conditions can travel with it. `CallFails` treats failures as
the code does (a failed workload is logged and Failed written, a failed
deletion or patch is an error), `RestartOperator` loses the reconcile.

**GatewayProcess** is a gateway as far as it writes the device: `Run` with
`UpdateSession` (one step: nobody else writes these fields), `Tick` (probe, Get)
and `UpdateHealth` (the patch, one step later); and the cluster around it: pods
that start, stop and die, and Deployments whose readiness is observed.
**DeviceLifecycle** adds users (create, delete, change of backend, the
ConfigMap's trace flag), a Z21 that answers or does not, faults and properties.

A Deployment's state says two things, as the code asks for each by itself
(`HasReplica`, `deploymentFailed`): a ready replica, and a rollout past its
deadline. Both hold of an old replica that stays when the new one does not
start (`Stuck`), which makes the phase Failed and GatewayReady true.

Abstractions: a workload's content is the device, the backend and the trace
flag it was made from; a rolling update keeps a ready replica; a stale cache of
workloads shows as a failed call (a conflict, or "already exists"). The Role and
the RoleBinding are two calls and two steps, but only the second leaves a trace
in `rbac`, as the first gives the gateway nothing by itself; both go with the
device, whose owner references they carry. `loadRuntimeConfig` treats a failed
Get as an empty configuration; no step stands for that, because the manager's
client (cmd/main.go:62) answers this Get from the informer that `Watches` of the
ConfigMap starts and the worker waits for, so that it finds the ConfigMap or
none. With a client that asks the API server it would be a way to deploy
with the trace flags off that nothing repeats.

### Stream and flags

**DeviceStream**: `Change` (the cluster), `LoseWatch` (the informer lists again;
an object deleted unseen arrives as a tombstone, one that came and went does
not arrive), `Deliver` with `Published` (the handlers of `StartDeviceWatch`) and
`Publish` (a full channel drops the event), and per client `List`,
`WriteSnapshot`, `Subscribe`, `WriteEvent`, `Leave`, `Unsubscribe`. Writing an
event and reading it in the client are one step: what is on the way there could
as well wait in the channel.

**BroadcastFlags**: per request `FetchDevice`, `Patch`,
`PublishSetBroadcastFlags`; in the gateway `ReadFlags`, `SubscribeControl`,
`Attach`, `Handshake` (reads the flags), `SetBroadcastFlags` (sends them),
`SystemState`; beside it the handler's `SetFlags`, `ReadClient`, `Send`; `Outage`
and `RestartGateway`.

Both keep ghost variables, which no guard reads and which change no other
variable, to say exactly what the properties except. `DeviceStream!missed`: clients the latest event about their
device did not reach. `BroadcastFlags!missed`: a request overlapped another one,
or its command was not published, or lost after it was (`PublishFails`), or was
published between the gateway's read and its subscription. `doubtful`: a command fell between the handshake's
read and send, or a datagram was lost.

### Simulations

**SimulatorCAN** is the registry, a function from net IDs to a device or
`Absent`, with its operations as operators; a detector's 16-bit address wraps,
and a description makes a device of no kind, as in the code.
**SimulatorServer** is the process: `session`, `trackPower`, `canDevices`, the
LAN thread's `packet` with the messages left and the replies gathered, and for
each thread the `job` of announcing that it has. `handlePacket` takes one
message per step and `writeMessages` sends the replies at the end; an
announcement is cut where the code takes the lock again: the read of what is
announced (`xStatusReply`, `systemStateReply`), the list of recipients
(`subscriberAddrs`), each datagram (`sendUDP`). `SetTrackPowerAndNotify`,
`BroadcastSystemState` and `NotifyCANDeviceDetected` are the gRPC calls. Its
properties are about what clients were told, and stand in the module too.

**SimulationStore** has the objects, their watch and generations.
**SimulateRequests** has one action for each call of `simulateCAN` to the API
server, and `SimulateCommand`, the list that elpctl sends.
**SimulationController** has `Reconcile` up to the first call, `StartCall` and
`ReturnCall` for each device to register, `patchStatus` (not needed, written,
or refused for a conflict), `CallFails`, `StatusUpdateFails` and
`RestartController`. A call is a thread of the simulator: what it announces
interleaves with the LAN, and a call that fails may have been carried out.
**SimulationLifecycle** adds users, LAN clients, a simulator that starts with
its device and may stop, and the properties. A behaviour starts in one of
`Scenarios`, which also says what it may hold at most.

Abstractions: names and the ports of a detector (at least one, all with the
same address) are left out; a poll is for all detectors; a datagram arrives at
once or is lost, because what a client knows does not depend on when; requests
answered with a constant change nothing; lists of detectors are functions from
net IDs, so that a list that names one twice is left out; the message of a
failed registration does not say which one, as the count does.

Ghost variables, as above: `heard` (what each client was told last), `due` (who
was not yet told of the last change of power), `blurred` (what changed while an
older announcement was under way), `polled` (who subscribed to detectors, then
polled, and lost no datagram since), `disturbed` (whose simulator stopped
since the reconcile its status tells of began) and `overruled` (a request
replaced a list it had not read, or a user deleted a simulation). `FlagsChange`
keeps them when a client sets its flags: it starts to know of what it starts to
listen to; and one that drops a flag of the power may miss the message under way
for that flag, so that it is owed nothing until the next change.

## 3. Runs

Liveness runs and runs with edits set `CHECK_DEADLOCK FALSE`: when bounds are
used up and nothing is left to do, the system stops. A pool object never stops.

| run | question | instance | states |
|---|---|---|---|
| `pool_object` | any calls on one pool | 3 owners, ranges of 3 and 4 addresses above 1 with and without reserved ones, addresses 0..6, rebuild lists up to 2, refused configurations | 1.7 k |
| `addressing` | safety under lag, faults and users | 2 modules, both with address 1, pool 1..3 with 1 reserved, lag 3, 1 fault, 1 object created by a user, symmetric | 2.5 M |
| `addressing_synced` | the same when caches have caught up, against the abstract allocation | creation and deletion, lag 3 | 69 k |
| `addressing_repair` | liveness from a broken start | 1 module with any of 4 addresses, no device and a refused pool at first, 2 edits that repair them, 1 fault | 292 k |
| `device_edits` | no orphans, no lost edit, nothing left undone | 1 device, 3 edits of all kinds, 1 upset, no gateway loop | 5.8 M |
| `device_deletes` | deletion ends, one failure is made up for | 1 device, create and delete, session loop, 1 upset | 131 k |
| `device_health` | two writers of the conditions | 1 device, thresholds 2 and 1, health loop, 1 upset | 460 k |
| `stream` | views and channels | 2 devices, 2 clients, one of them keen, channels of 2, 4 changes, 1 lost watch | 2.0 M |
| `flags` | spec, session, station | 3 requests (2 at once), values 0, 2, 3, 1 restart, 2 outages, 1 failure | 1.3 M |
| `simulation` | requests, controller, simulator, clients | 1 simulation, 2 net IDs, 2 requests, 2 gRPC threads, 2 LAN clients, five scenarios (below) | 251 k |
| `duplicate_address`, `bundled_pool` | promises that fail, see 6 | | |

What the runs show, property by property:

- `StatsAddUp`, `Rebuildable`, `ImplementsBook`: the pool is right
  after every call, both its maps tell the same, and the controller may rebuild
  it from what it gave out.
- `AssignmentStable`, `AssignedIsDesired`: no stale copy, lost answer or restart
  moves a detector or leaves an address in the status that the spec lacks.
- `ReservedOnlyAdopted`: a reserved address is only kept by the module that
  reports it. `PoolStatusSettles`: the pool's counter is right when nothing is
  left to do and no call failed, although its conflicts are only logged.
- `NobodyForgotten`: once the operator has nothing left to do, each detector has
  an address or has failed, whatever was refused, lost or restarted before.
- `UniqueAddress`, `ImplementsAllocation`: hold when each reconcile reads
  caches that have caught up (`SyncedSpec`); without that the former fails.
- `AppliedIsConfigured`, `EventuallyConfigured`, `AppliedRecurs`: Applied is
  true when shown; a module gets its address once device and pool are usable;
  Applied returns although the controller takes it back on each event.
- `NoOrphans`, `DeletionCompletes`, `WorkloadCurrent`: see the module; each has
  a crash or a failed call anywhere in it. `FailureIsRetried`: the reconcile
  only logs a failed workload, and it is the event of its own Failed status
  that brings the device its workloads after all.
- `NothingLeftToDo`: what the operator leaves behind when it stops working is a
  device with its finalizer, not marked, whose status is that of its latest
  generation. It is not for every moment: an old reconcile may patch the status
  of a removed device, observed generation included, into a new one of its name.
- `NeverReachableAndDegraded`, `PhaseAgrees`, `GatewayUpIsShown`,
  `ReachabilityIsShown`: two processes replace each other's conditions and the
  object still settles on the truth. It does because every tick of the health
  loop patches something: with a patch only when the tracker's verdict changes
  (the mutant) an old condition that the operator put back stays for good.
- `HubSound`, `LatestEventMends`, `KeenClientsFollow`: no send on a closed
  channel; one event that arrives mends a view; a stalled client holds nobody up.
- `SessionFollowsSpec`, `NextSendMends`: flags agree but for the named windows,
  and only until the next request, command or reconnect.
- `EveryChangeAnnounced`, `LastWordIsCurrent`: however LAN and gRPC interleave,
  subscribers hear the power that holds, since what is announced is read after
  the change; of a CAN device they may hear an old address only while `blurred`.
- `NoDetectorMissed`: who subscribes and then polls has heard of every detector
  but those being announced. It holds because a device is registered before the
  recipients of its announcement are listed, and the flags are stored before
  the poll is answered.
- `AppliedCountIsTrue`: the count in the status is that of devices on the
  simulator, from an old copy and after a failed call too, until it stops.
- `AnsweredIsKept`: neither a status written from a copy nor a request that
  read the latest list removes what another was answered for.
- `RequestTakesEffect`, `EventuallyApplied`: with one call, answer or status lost
  or one restart, requests get to the simulator and simulations are shown applied.

Why the bounds are enough:

- *Lag.* A duplicate address needs two undelivered events of one kind (spec and
  status of the first detector), so lag 2 is the least that shows it; the safety
  run has 3. For devices, lag 2 lets the operator patch from a copy that misses
  a patch of the gateway and its own; with lag 1 every writer waits for the
  informer and copies are hardly ever old. Writers wait for room in a full
  stream; in reality it is unbounded, and fairness makes up for it (4).
- *Two detectors* are enough for a duplicate and three addresses for the second
  to go elsewhere. Two modules and passes of the gateway together give some 9
  million states, so `SilentBus` is empty in `addressing` (no pass starts) and
  `addressing_repair` follows the passes with one module.
- *One report at a time* in `addressing_repair`: reports are a set, in which
  with two of them an old one could be overtaken for ever, which a socket's
  order rules out. `addressing` allows two.
- *Loops.* Session and health loops write disjoint fields, so each run follows
  one; `device_edits` needs neither, as no property of it is about what they
  write.
- *One upset or fault* in each run, at any point and with every interleaving
  after it; the code meets a failure by repeating the reconcile from the queue.
  Two in a row are not checked: after them a failed workload or registration is
  not repeated, an observation below (6).
- *Channels of 2 and 4 changes*: they overflow; a second watch loss adds nothing
  that one in any state does not show.
- *Three requests*: two that overlap and one alone that mends; two outages, so
  that a command can fall into the second handshake.
- *Scenarios of `simulation`*: (1) power from the LAN and one gRPC call, three
  packets of two clients; (2) two requests at a running simulator, the default
  detector, another one, an empty list and net ID 0; (3) a request while a
  client subscribes, polls, describes and programs; (4) a device and a simulator
  that come and go under simulations with and without a device, three edits and
  a booster that is switched; (5) one request against two edits, without a
  fault. Each of the others has one fault at any point. Two clients and two
  threads beside the LAN's are what an overtaken announcement needs; lag 2 lets
  a reconcile run on a copy that misses its own status and an edit. The
  liveness properties speak of a simulator that serves throughout, so scenario
  4 says nothing about them, nor does 1, which has no simulation.

Each property has a mutant in `PROJECT.json`: a change of one mapped definition
that a plausible bug would make, under which TLC finds it violated. The mutated
operators stand in the modules, marked `mutant`.

## 4. Fairness

`CANAddressing!FairSpec`: weak fairness of deliveries per kind, of the start of
each queued reconcile and of its steps (the work queue and one worker), of
reports (modules report their state periodically), of discovery and of the
gateway's steps. Strong fairness twice: `StartsPass`, because `bridgeZ21`
starts a pass only on a read timeout, so the bus must fall silent again and
again (gateway.go:214: on a bus that never does, addresses are not applied);
and a set that reaches the module, because a datagram may be lost but not every
one.

`DeviceLifecycle!FairSpec`: deliveries, reconciles, loops, stopping of pods and
observed readiness. No fairness of starting pods: an image may be missing.
Strong fairness of steps that wait for room in the bounded watch stream, which
in the real system do not wait. The two properties about conditions assume
`Paced`: again and again the operator has nothing to do and no patch is under
way. It stands for time: the health interval is seconds, a reconcile
milliseconds. Without it operator and gateway could overwrite each other for
ever.

`SimulationLifecycle!FairSpec`: weak fairness of the LAN thread, of announcing
threads, requests, deliveries, the start of reconciles and the reconcile's
steps. Each is asked of the group, not of its members, because what a group
has to do is finite and its members do not disable one another. Nothing is
assumed of users, clients, faults or the simulator's start. Both liveness
properties assume `[]Serves`: the simulator runs and its device keeps its
backend.

`DeviceStream!FairSpec`: the informer delivers, and the handlers of *keen*
clients write. The others may stop reading for good. Nothing is assumed of
changes, connections or departures.

The informers' resync (10 hours by default) is not modelled: a promise that
holds only because of it is not counted as kept.

## 5. Proofs

**CANPoolProofs** has the lemmas about the pool's operators that the pool and the
controller share: what `Rebuild` makes of a list of assignments (`AcceptedPass`,
`RebuiltMaps`, `RebuiltWhole`), that a free address, if there is one, has a
lowest one (`FreeAddresses`, `MinExists`).

**PoolObjectProofs**, for any owners, addresses, configurations and calls:

- `PoolTypeCorrect` (`TypeOK`), `PoolMapsInverse` (`MapsInverse`). Both follow
  from one inductive invariant, `IInv`: `WellFormed(pool)`, the maps typed and
  inverse to each other, with `op` and `err`. The two belong together: that a
  binding keeps the maps inverse rests on their being functions within owners
  and range, and that `Release` leaves typed maps on `ownerByAddr` having the
  address that `addrByOwner` names. One lemma per operation (`BindSound`,
  `AllocateSound`, `ClaimSound`, `ReleaseSound`, `ReleaseAddressSound`,
  `RebuildSound`) says that it takes a well-formed pool to one. `MinExists`
  gives the lowest address of a non-empty set of naturals, from
  well-foundedness; `AcceptedEntries` says that the entries `Rebuild` takes name
  no owner and no address twice.
- `PoolImplementsBook` (`ImplementsBook`): with `IInv`, every call is a step of
  the address book. Here the inverse maps are needed: the code looks for a free
  address in `ownerByAddr`, and the book has only `addrByOwner`. `ConfigKept`
  keeps range and reserved addresses, and one lemma per operation
  (`AllocateAssigns`, `ClaimAdopts`, `ReleaseDrops`) maps it.
- `PoolStatsAddUp` (`StatsAddUp`): what `Stats` counts covers the range, with the
  reserved addresses that were claimed. The sets it counts are finite because
  the range is, and the maps being inverse makes owners and addresses equally
  many.
- `PoolAlwaysRebuildable` (`Rebuildable`): a pool accepts its own assignments in
  any order and is rebuilt as it was. A pool's assignments name no owner and no
  address twice (`Distinct`), so `Rebuild` takes them all, whatever their order.

Assumptions: `OwnersAssumption`, `AddressesAssumption` and `ConfigsAssumption`
of PoolObject, which TLC evaluates.

**CANAddressingProofs**, for any detectors, devices, pools, configurations,
edits, faults and lag of each stream. The invariant is built in layers; each
asks a little more of what happens around the operator, and a theorem says of
itself how much it needs.

- `NextSteps` first reduces every step to a few kinds (`Steps`): a write from
  outside the reconcile (`OutsideWrite`), which creates without an address,
  deletes, or leaves the operator's fields alone, and outdates the reconcile's
  copy; a write by the reconcile from a copy that nobody outdated
  (`OperatorWrite`); edits of pools and devices; deliveries; reads; ends.
- `Informed`, under `Spec` alone: types, `Streamed` (the latest undelivered event
  of an object is the object, and without one the copy is) and `CopyCurrent`
  (the copy of a reconcile that nobody outdated is the object with what the
  reconcile entered, and no more). Types need both: a write from an old copy
  would bring back an object that has gone. Theorem: `AddressingTypes` (`TypeOK`).
- `Held`: between the two writes of an address it is in the spec already
  (`AssignedIsDesired`), and a spec about to be written has the address that the
  object has, if it has one (`KeptAddress`), because the list contains the very
  detector that is reconciled (`ListPlaced`), and `Rebuild` gives it back its
  entry. This holds if the informer does not learn of another pool of the
  detector's device between Get and list (`SameDevice`). Without the condition
  TLC finds the detector losing its address (6); with it there is no other way
  to lose it. Theorems: `AssignedAlwaysDesired` (`AssignedIsDesired`),
  `AddressStaysAssigned` (`AssignmentStable`).
- `Settled`: devices that exist stay with their pool (`DevicesStay`). What the
  caches know of devices is then true, if perhaps not all (`Known`), and an
  address is held in the pool it came from (`Placed`, `Bound`). `StaysSame`
  shows that `SameDevice` follows. `AddressMoves` says what a step can do to an
  address: `Retains`, `Receives`, or the object has none.
- `UniqueHeld` and `FreshUnique`: no two detectors of a pool hold one address, and
  nobody holds the one about to be written. A list from a cache that lags does
  give an address twice, which is what `duplicate_address` shows, so this is
  for behaviours where, whenever a reconcile lists, the undelivered events about
  detectors are those of its own (`ListsComplete`). Nothing else need have
  arrived: not its own last write (a write from the old copy is refused), and
  neither devices nor pools, since the cache has the device of whoever holds an
  address (`Acquainted`: the operator found it there when it gave the address,
  and a restart lists again). The caches may lag again between the list and the
  write; there is one worker, and nobody else gives addresses. Theorems:
  `CompleteListsSuffice` and, as `SyncedSpec` asks for more (`SyncedIsComplete`),
  its corollary for the run, `AddressAlwaysUnique` (both `UniqueAddress`).
- `FreshAllowed`: the address about to be written is in the range, and not
  reserved for others, while configurations stay (`ConfigStays`); the caches may
  lag, because what they miss is no configuration, and a detector's own copy is
  current or its write is refused. Theorem: `ReservedNeverTaken`
  (`ReservedOnlyAdopted`).
- `CompleteListsImplement` and its corollary for the run, `AllocationImplemented`
  (both `ImplementsAllocation`): with one pool, a configuration that stays and
  complete lists, every step maps to the abstract allocation:
  `Receives` to `Give`, a deletion to `Forget`, everything else a gateway or user
  writes to `Wish`. `AllocationUnique`: that allocation never gives two detectors
  one address.
- `Truthful`, with `Held`: a report under way, an observed address, a copy that
  a gateway listed may be older than the module's address, but only once that is
  the desired one (`Seen`, `Marked`, `Copied`). So whoever compares one with the
  desired address and finds them equal is right even if what it compares is old.
  It is inductive because a desired address stays (`DesiredStays`) and a module
  is only ever sent that one (`ModuleMoves`). `PhaseTrue` says why the operator,
  which writes the phase too, never makes it Applied: it only writes that phase
  back when its first write was answered with it. Theorem:
  `AppliedAlwaysConfigured` (`AppliedIsConfigured`). Detectors may be deleted,
  if they are at rest (`DeletedAtRest`): no report of another address than the
  module's is under way, no gateway is about to write one into the object, and
  none works from a list that contains it. After another deletion the operator
  may give the next object another address, and an old report or a gateway with
  an old list then shows it as applied; left out of the hypothesis, each of the
  three conditions has a counterexample in TLC.
- `Served`, under `Spec` alone. `Awaited` detectors are queued, or have an event
  of their own or of their device to come; `Owes` adds the one under reconcile
  and those that failed. `Answered`: a detector has an address or owes. It is
  inductive with `RunWrites`: what the running reconcile is about to write of
  its detector differs from the object, unless the detector is awaited. So each
  write is news, and the detector is reconciled once more after it
  (`WrittenIsNews`); a name leaves the queue only for a reconcile that works, or
  has nothing to write because the object has failed, or has gone, or the copy
  is old (`BeginServed`); and a list after which nothing is left to write has
  found an address in the object (`ListDone`). Every fault but the refused write
  of a pool's status puts the name back. Theorem, without any hypothesis:
  `NobodyEverForgotten` (`NobodyForgotten`). That the operator does come to rest
  needs fairness, and stays with TLC (`EventuallyConfigured`).
- `Settling`, with `Settled` and `Served`, while devices and detectors stay: a
  pool's count is right, or something is on its way that will have it counted
  again. `Counted`: the count is that of the pool's detectors (`Members`), or
  one of them owes, or news of the pool are to come, which wake all its
  detectors (`PoolWakes`), or the running reconcile is about to write the right
  count. What makes this inductive is what the running reconcile may have
  missed: a copy of its pool (`RunPooled`) or of its detector (`RunWrites`) that
  is out of date means news to come, so that a logged conflict on the pool's
  status is made good; and a detector missing from its list owes
  (`MembersAreListed`). What a list counts is its owners (`AllocationCounts`,
  `ListOutcome`). One step does not keep it: the refused write of a pool's
  status (`StatusRefused`), an error that updatePoolStatus logs and drops.
  Theorems: `PoolStatusAlwaysSettles` (`PoolStatusSettles`, which speaks of
  behaviours without faults), and `OnlyStatusWritesMatter`: the counts settle
  (`CountsSettle`) with refused writes of detectors, lost answers, restarts and
  failures of gateways anywhere, as long as no pool's status was refused. With
  such a refusal TLC finds a count that stays wrong. Both are for pools that
  start unused (`PoolsUnused`). Nobody recounts a pool that a detector or device
  leaves, hence `DevicesStay` and `DetectorsStay`.

**DeviceStreamProofs**, for any clients, devices, capacity and number of changes:

- `StreamTypes` (`TypeOK`) and `HubAlwaysSound` (`HubSound`). The invariant adds
  that handler states are typed. The argument is the order in `streamDevices`: a
  handler enters the hub with a new channel as its last step before streaming,
  and leaves it before the channel is closed.
- `LatestEventAlwaysMends` (`LatestEventMends`). `Informed`: the latest
  undelivered event of a device is its state, without one the informer's copy
  is, and every change has a version of its own. `Told`: of a device about which
  nothing is undelivered, a client whose latest event was not dropped shows the
  state once it has read its channel. A relist after a lost watch may leave out
  events, but only of states that were published already or that it publishes
  itself.

**BroadcastFlagsProofs**, for any number of requests, restarts, outages and
failures:

- `FlagsTypes` (`TypeOK`).
- `NextSendAlwaysMends` (`NextSendMends`). The property speaks of a bridged Z21
  with no command waiting; the invariant `Mending` follows a handshake and a
  command on their way: what the handshake read is the session's flags unless
  doubtful, what the handler is about to send always is, and a Z21 that was told
  has the session's flags, or is doubtful, or a command is still under way.
- `SessionAlwaysFollowsSpec` (`SessionFollowsSpec`). `Coming` is what the session
  will have when all commands are handled: the last one under way, or what it
  has. A request that nobody overlaps publishes the very spec it wrote, so that
  afterwards spec and `Coming` agree; the start of a gateway reads the spec, or
  the command in between is one the property leaves out.

**SimulationProofs**: `AnsweredAlwaysKept` (`AnsweredIsKept`), for any
simulations, devices, net IDs, requests, users, scenarios, lag, faults and
restarts. Three writers meet in the object: requests patch, the controller
updates the status, users create and delete. The invariant `KeptInv` joins four
parts. `Synced`: the latest undelivered event of a simulation is the object,
and without one the controller's copy is. `RunCurrent`: from it, a reconcile
whose copy nobody has outdated holds the object itself, so that the status it
may write leaves the lists as they are. `Kept`: what a request has read, and
what it was answered for, is still listed, unless overruled; `Grows` is what
every step then has to show. And `Typed`: objects have their fields, without
which no field survives an EXCEPT. `PatchOfSimulation` says what a merge patch
made from an older copy leaves: the merged list, or, when that is the one read,
the server's.

**SimulatorProofs** and **SimulationProofs**: `ChangesAlwaysAnnounced`
(`EveryChangeAnnounced`), `LastWordAlwaysCurrent` (`LastWordIsCurrent`) and
`NoDetectorEverMissed` (`NoDetectorMissed`), for any clients, threads, net IDs,
packets and calls, with the controller, requests and restarts of
SimulationLifecycle around the simulator. The properties speak of moments when
nothing is under way; the invariant `ServerInv` says what is owed to whom at
every other moment:

- `DueCovered`: whoever is due a change of power is about to be sent the power
  that holds, by a thread that has yet to read it, or read it and nobody changed
  it since (`Covers`), or by the answer gathered in the packet. It is inductive
  because what is announced is read after the change, and because the thread
  that changes the power covers all who listen, except the one that asked, whose
  answer is in the packet.
- `TopicsTrue`: of a topic that is not blurred, no thread holds anything that is
  not so, the packet's answers end with what is so, and a listener knows it or
  is about to be told (`Pending`). A change without an older announcement under
  way establishes it, one with makes the topic blurred.
- `PolledKnow`: a client that polled has heard of each detector, or a thread is
  about to tell it as a detector (`Meets`); before the packet is answered, the
  answers may have it instead.
- `ServerTyped`: which flags and recipients go with what a thread says. Without
  it an announcement of a detector could go to the subscribers of boosters.

One lemma per step of the simulator preserves each part; `ServerKeeps` joins
them for `ServerStep`, every step the simulator can take, and
`SimulatorAsModelled` shows that the whole system takes no other: what the
controller has yet to register are detectors and boosters of valid net IDs
(`CallsTyped`), which rests on the objects in its cache being typed (`KeptInv`).

`SimulationTypes` (`TypeOK`) adds to `ServerInv` what a status can say
(`SoundObjects`): no generation is observed before there is one, and Failed comes
with a reason and only Failed does. It is said of the objects, the cached ones,
those under way and the one being reconciled (`ObjectsIn`), as a status may be
written from any of them; and a simulator that is down has nothing under way.

`CountsAlwaysTrue` (`AppliedCountIsTrue`) uses `ObjectsIn` with another set:
objects that list every net ID as the kind it has everywhere
(`AlwaysListedAs`). Then what a reconcile has registered from the list of its
copy (`RunCounts`) cannot be registered as something else by anybody, and the
status it writes, only if its copy is the latest, counts what is there
(`StatusCounts`). Without the hypothesis the property is false: two simulations,
or the two lists of one, may name a net ID with different kinds, and the
simulator keeps the last registration (6).

**DeviceLifecycleProofs**, for any devices and names, edits, faults, restarts
and lag of the cache: `Types` (`TypeOK`), `NothingIsOrphaned` (`NoOrphans`),
`RestIsDone` (`NothingLeftToDo`), `PhasesAgree` (`PhaseAgrees`),
`HealthIsConsistent` (`NeverReachableAndDegraded`) and `WorkloadsAreCurrent`
(`WorkloadCurrent`), all from one inductive invariant, `Inv`. Its parts:

- *The store* (`StoreInv`). `Synced`: the latest undelivered event of a device
  is the object, and without one the copy is. `CopiesFollow`: what an older copy
  or event says of finalizer and mark still binds the object: one it shows with
  a finalizer and unmarked has kept it, one it shows marked has not come back
  unmarked. The operator's right to touch workloads rests on it, as it never
  looks at the object itself.
- *The run* (`RunInv`): what the running reconcile's step says about its device:
  whether it is held or marked (`RunHeld`), which workloads have been made or
  removed so far, from which content (`RunProgress`), and, `RunFresh`, that a
  reconcile about whose device nothing is undelivered works for its present
  backend and trace flag. A later edit leaves an event, and so another reconcile.
- `Kept`: a name that has workloads has a device with a finalizer. This is
  `NoOrphans`, made inductive by the two parts above.
- `RestIsSettled`: a device with no event, no queue entry and no run is as
  `NothingLeftToDo`, `PhaseAgrees` and `WorkloadCurrent` say. Each step of a
  reconcile carries it from the run to the device, and each step of anybody else
  that could break it leaves an event.
- Types, in which the lists of conditions never show Reachable and Degraded
  at once: that is what must hold of all copies, undelivered events, statuses
  under computation and patches under way for it to hold of the object.

`WorkloadsAreCurrent` is for clusters without two devices of one name in
different namespaces (`OneDevicePerName`, its hypothesis): these take each
other's Deployment (6). The other theorems need no such hypothesis. The
invariant is also what showed that `TypeOK` may not say that a status observes
at most its object's generation.

Assumptions on constants, each named where it is declared and evaluated by TLC:
net IDs are 1 to 65535; thresholds of the health loop are at least 1; objects
of different kinds have different names; `Absent`
and `NoDeployment` are none of the other values (`SessionAssumption`: nor is
`Absent` a set of flags); the LAN's thread is no gRPC call's; manifests, bodies
and packets have the shape of their types; there are finitely many detectors
and devices; the pools and devices of the start, and what users make of them,
have the fields of their types. `SameDevice`, `DevicesStay`, `ConfigStays`,
`DetectorsStay`, `DeletedAtRest`, `ListsComplete` and `~StatusRefused` are no
assumptions on constants but hypotheses about a behaviour, each with the theorem
that needs it. Users who leave devices, pools and detectors in place satisfy the
first five, and so do all behaviours of the runs that check the property;
`ListsComplete` follows from `SyncedSpec`, which `addressing_synced` runs; and
`~StatusRefused` is asked for by `OnlyStatusWritesMatter` alone, a theorem about
faults that no run's property states.

Every safety and action property of a passing run is proved, some under the
hypotheses named above. Only model-checked are the liveness properties, fairness
and ENABLED being beyond the prover: `EventuallyConfigured`, `AppliedRecurs`,
`DeletionCompletes`, `FailureIsRetried`, `GatewayUpIsShown`, `ReachabilityIsShown`,
`KeenClientsFollow`, `RequestTakesEffect`, `EventuallyApplied`.

## 6. What the checks found

Two promises of the repository that the code does not keep, each a run that
TLC ends with a counterexample:

- `duplicate_address`: with a cache that misses the operator's last two writes,
  a second detector is given the same address (candetector_controller.go:67,
  against candetector_types.go:50). From then on `Rebuild` refuses the
  duplicate for every detector of the pool.
- `bundled_pool`: the pool installed by default reserves 1, 2 and 3 of a range
  10 to 200, and `Validate` refuses reserved addresses outside the range
  (config.go:35, against z21device_types.go:305-313): every detector of it fails.

Observed while modelling; the properties above are stated so as to leave these
out, and say so:

- A detector reconciled between the gateway's Create and its status patch is
  allocated an address where it should adopt its own (manager.go:202).
- A device deleted, or pointed at another pool, between a reconcile's Get and
  its list makes the detector lose its entry and be given another address
  (candetector_controller.go:159). `AddressStaysAssigned` shows that nothing
  else does (`SameDevice`, 5).
- The reconcile of a deleted detector returns before the pool's status is
  computed, which stays too high until another one (candetector_controller.go:38).
- `Owns` waits for Deployments with an owner reference, and they have none: a
  gateway that dies is shown ready until something else wakes the operator
  (z21device_controller.go:585, CONTRIBUTING.md:355).
- The operator's patch carries a whole list of conditions and puts back older
  ones for a while (z21device_controller.go:446, CONTRIBUTING.md:356).
- A restarted gateway shows its first failed probe at once, below the threshold
  (healthloop.go:116, z21device_types.go:129).
- `LastSeen` is also written when the Z21 did not answer (gateway.go:100,
  z21device_types.go:201).
- Devices of one name in two namespaces take each other's Deployment
  (z21device_controller.go:620).
- A change published between a client's list and its subscription reaches it
  only with the next event about the device (stream.go:105, openapi.yaml:60).
- A tombstone is dropped, so a client may show a deleted device (watch.go:49,
  openapi.yaml:61).
- A command published between the gateway's read and its subscription is lost
  (gateway.go:60); overlapping PATCH requests may publish out of order
  (devices.go:136); a handshake may send older flags after a command
  (gateway.go:124, :310).
- A failed workload, and a failed registration, become the status Failed and no
  error. The event of that status brings about one more reconcile; if it fails
  too nothing changes and nothing follows (z21device_controller.go:83,
  simulation_controller.go:98). A simulation made before its device, or before
  the simulator runs, stays Failed for the same reason.
- A simulator that restarts has no CAN devices, and wakes nobody to register
  them again (server.go:57 of z21-sim).
- Registering a device again replaces the address a gateway programmed
  (can.go:78 of z21-sim); a new module address is told to nobody, and a switched
  booster only to the client that asked.
- A description for an unknown net ID makes a device of no kind, and a net ID
  used for a detector and a booster of one simulation ends up as the booster.
- Two `simulate` requests that read the same list: the second patch replaces
  the first one's detectors (simulations.go:91).
- Sessions of the simulator end only by LAN_LOGOFF, which the gateway never
  sends (server.go:210 of z21-sim).
- z21device_types.go:73 gives 0x00000101 as the meaning of unset flags; the
  default in the code is 0x00080101.

## 7. What is not modelled

Left out for good: Z21 events that the gateway only forwards to NATS (they
change no state here), tracing, logging, configuration files, health endpoints,
the encoding of Z21 packets and the translation between API and Kubernetes
objects, the generated code and the manifests, except the bundled pool. The
broker and Kubernetes are external: NATS delivers in order to whoever is
subscribed, may lose a command and keeps nothing; the API server applies patches and
refuses updates of old copies, and collects owned objects. Of elpctl the
commands that are one request, and of the API server the endpoints that are one
call to Kubernetes, appear only as users' edits. In the simulator, what is
answered with a constant, the names of CAN devices and the ports of detectors.

## 8. Plan

Done: the pool and its proofs; CAN addressing, its refinement and liveness; the
device lifecycle; the stream; the broadcast flags; simulations, from the
request to the simulator's clients.

Models to add:

1. Addressing with an exhausted pool, with a range narrowed after use, and two
   modules in one pass of which one never answers.
2. Addressing composed with the simulator: the bus of `CANAddressing` is
   external, and a registration that replaces a programmed address would be met
   there.
3. Devices of one name in two namespaces, as an assumption of WorkloadCurrent
   that a run shows to be needed.

Theorem to add: an upper bound of a pool's count when detectors are deleted.
`RefsKnown` does not survive that: an old event may name a device of an object
that has gone, and one of its name may refer to another.
