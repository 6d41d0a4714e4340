----------------------- MODULE CANDetectorController -----------------------
(***************************************************************************)
(* CANDetectorReconciler: the operator's controller that gives detectors   *)
(* their module addresses.                                                 *)
(*                                                                         *)
(* It reads from informer caches that follow the API server through the    *)
(* watch streams, and writes to the API server with the resourceVersion of *)
(* the copy it read.  There is one worker (MaxConcurrentReconciles is 1).  *)
(* A reconcile is cut where other processes, the informers included, can   *)
(* act: between its reads and before each write.                           *)
(***************************************************************************)
EXTENDS DetectorStore, SequencesExt

VARIABLES
  cache,      \* what the informers hold: [det, dev, pool]
  queue,      \* detectors waiting for a reconcile
  pc,         \* "idle", "list", "spec", "status", "fail" or "pool"
  run         \* what the running reconcile holds, NoRun when idle

controllerVars == <<cache, queue, pc, run>>

(***************************************************************************)
(* obj is the local copy being changed, pool and poolObj the pool it read, *)
(* statusChanged is computed before any write, stats is what the           *)
(* allocation counted.                                                     *)
(***************************************************************************)
Reconcile(name, obj, pool, poolObj, statusChanged, stats) ==
  [name |-> name, obj |-> obj, pool |-> pool, poolObj |-> poolObj,
   statusChanged |-> statusChanged, stats |-> stats]

NoRun == Reconcile(None, Absent, None, Absent, FALSE, NoStats)

ControllerInit ==
  /\ cache = [det |-> det, dev |-> dev, pool |-> pools]
  /\ queue = {d \in Detector : det[d] # Absent}
  /\ pc = "idle"
  /\ run = NoRun

-----------------------------------------------------------------------------
(***************************************************************************)
(* Informers and event handlers.                                           *)
(***************************************************************************)
DetectorsOfDevice(v) == {d \in Detector : cache.det[d] # Absent /\ cache.det[d].ref = v}

Deliver(kind, woken) ==
  /\ watch[kind] # <<>>
  /\ LET e == Head(watch[kind]) IN
       /\ cache' = [cache EXCEPT ![kind][e.name] = e.obj]
       /\ queue' = queue \cup woken[e.name]
  /\ watch' = [watch EXCEPT ![kind] = Tail(@)]
  /\ UNCHANGED <<det, dev, pools, current, pc, run>>

DeliverDetector == Deliver("det", [d \in Detector |-> {d}])

mapDeviceToDetectors == Deliver("dev", [v \in Device |-> DetectorsOfDevice(v)])

(* Mutant: a pool that changed wakes nobody. *)
PoolWakesNobody == Deliver("pool", [p \in PoolName |-> {}])

mapPoolToDetectors ==
  Deliver("pool", [p \in PoolName |->
                     UNION {DetectorsOfDevice(v) : v \in {w \in Device : cache.dev[w] = p}}])

-----------------------------------------------------------------------------
(***************************************************************************)
(* Ends of a reconcile.                                                    *)
(***************************************************************************)
Finish ==
  /\ pc' = "idle" /\ run' = NoRun /\ current' = {}
  /\ UNCHANGED <<cache, queue>>

(* An error returned from Reconcile: the work queue takes the name back. *)
Requeue ==
  /\ pc' = "idle" /\ run' = NoRun /\ current' = {}
  /\ queue' = queue \cup {run.name}
  /\ UNCHANGED cache

Goto(label, r) == pc' = label /\ run' = r /\ UNCHANGED <<cache, queue>>

(***************************************************************************)
(* Begin: the Gets of the detector, its device and its pool.  A missing    *)
(* device or pool leads to patchFailed, whose write is the step "fail".    *)
(***************************************************************************)
Begin(d) ==
  LET obj  == cache.det[d]
      pool == cache.dev[obj.ref]
      FailWith(message) ==
        LET failed == [obj EXCEPT !.phase = Failed, !.message = message] IN
        IF failed = obj
          THEN pc' = "idle" /\ run' = NoRun /\ current' = {}
          ELSE /\ pc' = "fail"
               /\ run' = Reconcile(d, failed, None, Absent, TRUE, NoStats)
               /\ current' = {d} \ Lagging
  IN
  /\ pc = "idle"
  /\ d \in queue
  /\ queue' = queue \ {d}
  /\ IF obj = Absent THEN pc' = "idle" /\ run' = NoRun /\ current' = {}
     ELSE IF obj.ref = None THEN FailWith(NoDeviceRef)
     ELSE IF pool = Absent THEN FailWith(NoDevice)
     ELSE IF cache.pool[pool] = Absent THEN FailWith(NoPool)
     ELSE /\ pc' = "list"
          /\ run' = Reconcile(d, obj, pool, cache.pool[pool], FALSE, NoStats)
          /\ current' = {d, pool} \ Lagging
  /\ UNCHANGED <<det, dev, pools, watch, cache>>

(***************************************************************************)
(* listPoolDetectors and assignmentsFromDetectors, over the caches.  The   *)
(* cache lists its objects in no particular order.                         *)
(***************************************************************************)
PoolDetectors(pool) ==
  {d \in Detector : /\ cache.det[d] # Absent
                    /\ cache.det[d].ref # None
                    /\ cache.dev[cache.det[d].ref] = pool}

(* Mutant: an address that is only in the spec is not taken into account. *)
AssignmentsInStatus(pool) ==
  {[owner |-> d, address |-> cache.det[d].assigned] :
     d \in {x \in PoolDetectors(pool) : cache.det[x].assigned # None}}

AssignmentsOf(pool) ==
  {[owner |-> d, address |-> AssignedAddress(cache.det[d])] :
     d \in {x \in PoolDetectors(pool) : AssignedAddress(cache.det[x]) # None}}

(***************************************************************************)
(* allocateDetectorAddress, from the pool rebuilt from the list: keep the  *)
(* address the detector has, or adopt the one its module reports, or take  *)
(* the lowest free one.                                                    *)
(***************************************************************************)
Success(p, addr) == [phase |-> Allocated, message |-> NoMessage, addr |-> addr, stats |-> Stats(p)]

Failure(err) == [phase |-> Failed, message |-> err, addr |-> None, stats |-> NoStats]

allocateDetectorAddress(cfg, rebuilt, d, obj) ==
  LET p         == rebuilt.pool
      claimed   == Claim(p, d, obj.observed)
      allocated == Allocate(p, d)
  IN  IF ~Validate(cfg) THEN Failure(ErrInvalidConfig)
      ELSE IF rebuilt.err # OK THEN Failure(rebuilt.err)
      ELSE IF d \in DOMAIN p.addrByOwner THEN Success(p, p.addrByOwner[d])
      ELSE IF obj.adopt /\ obj.observed # None /\ IsAvailable(p, obj.observed)
        THEN IF claimed.err # OK THEN Failure(claimed.err)
                                 ELSE Success(claimed.pool, obj.observed)
      ELSE IF allocated.err # OK THEN Failure(allocated.err)
      ELSE Success(allocated.pool, allocated.addr)

(* The local copy after the result has been entered into it, label included. *)
EnteredAlways(obj, r) ==    \* mutant: a failed result's address, 0, is entered too
  LET addr == IF r.addr = None THEN 0 ELSE r.addr IN
  [obj EXCEPT !.labelled = TRUE, !.phase = r.phase, !.message = r.message,
              !.desired = addr, !.assigned = addr]

Entered(obj, r) ==
  LET labelled == [obj EXCEPT !.labelled = TRUE, !.phase = r.phase, !.message = r.message] IN
  IF r.phase = Allocated THEN [labelled EXCEPT !.desired = r.addr, !.assigned = r.addr]
                         ELSE labelled

SpecOf(obj)   == <<obj.ref, obj.labelled, obj.adopt, obj.desired>>
StatusOf(obj) == <<obj.observed, obj.assigned, obj.phase, obj.message>>

(* Once the detector is written, the pool's status follows if the detector *)
(* was allocated an address (only then are there Stats).                    *)
PoolStatusIfChanged(r) ==   \* mutant: only after the detector's status changed
  IF r.statusChanged /\ r.stats # NoStats /\ r.poolObj.status # r.stats
    THEN Goto("pool", r) /\ UNCHANGED current
    ELSE Finish

PoolStatusOrFinish(r) ==
  IF r.stats # NoStats /\ r.poolObj.status # r.stats
    THEN Goto("pool", r) /\ UNCHANGED current
    ELSE Finish

AllocationsFrom(assignments) ==
  LET cfg == run.poolObj.cfg IN
  {allocateDetectorAddress(cfg, rebuilt, run.name, run.obj) :
     rebuilt \in {Rebuild(New(cfg), assignments)}}

ListAndAllocate ==
  /\ pc = "list"
  /\ \E assignments \in SetToSeqs(AssignmentsOf(run.pool)) :
     \E result \in AllocationsFrom(assignments) :
     \E new \in {Entered(run.obj, result)} :
       LET r == [run EXCEPT !.obj = new, !.stats = result.stats,
                            !.statusChanged = StatusOf(new) # StatusOf(run.obj)]
       IN  IF SpecOf(new) # SpecOf(run.obj) THEN Goto("spec", r) /\ UNCHANGED current
           ELSE IF r.statusChanged THEN Goto("status", r) /\ UNCHANGED current
           ELSE PoolStatusOrFinish(r)
  /\ UNCHANGED <<det, dev, pools, watch>>

(***************************************************************************)
(* The writes.  A copy that is no longer current is refused with a         *)
(* conflict.                                                               *)
(***************************************************************************)
SpecWritten == [det[run.name] EXCEPT !.ref = run.obj.ref, !.labelled = run.obj.labelled,
                                     !.adopt = run.obj.adopt, !.desired = run.obj.desired]

StatusWritten == [det[run.name] EXCEPT !.observed = run.obj.observed, !.assigned = run.obj.assigned,
                                       !.phase = run.obj.phase, !.message = run.obj.message]

(***************************************************************************)
(* The answer to Update is decoded into the same variable: every status    *)
(* field the server has a value for replaces the local one.                *)
(***************************************************************************)
DecodedInto(local, server) ==
  LET Over(f, empty) == IF server[f] # empty THEN server[f] ELSE local[f] IN
  [local EXCEPT !.observed = Over("observed", None), !.assigned = Over("assigned", None),
                !.phase = Over("phase", NoPhase), !.message = Over("message", NoMessage)]

UpdateSpec ==
  /\ pc = "spec"
  /\ run.name \in current
  /\ PutDetector(run.name, SpecWritten)
  /\ LET r == [run EXCEPT !.obj = DecodedInto(run.obj, SpecWritten)] IN
       IF run.statusChanged THEN Goto("status", r) /\ UNCHANGED current
       ELSE PoolStatusOrFinish(r)

UpdateStatus ==
  /\ pc = "status"
  /\ run.name \in current
  /\ PutDetector(run.name, StatusWritten)
  /\ PoolStatusOrFinish(run)

PatchFailed ==
  /\ pc = "fail"
  /\ run.name \in current
  /\ PutDetector(run.name, StatusWritten)
  /\ Finish

Conflict ==
  /\ pc \in {"spec", "status", "fail"}
  /\ run.name \notin current
  /\ Requeue
  /\ UNCHANGED <<det, dev, pools, watch>>

(* updatePoolStatus: a conflict here is only logged. *)
UpdatePoolStatus ==
  /\ pc = "pool"
  /\ IF run.pool \in current
       THEN PutPool(run.pool, [pools[run.pool] EXCEPT !.status = run.stats])
       ELSE UNCHANGED <<det, dev, pools, watch>>
  /\ Finish

ReconcileStep ==
  ListAndAllocate \/ UpdateSpec \/ UpdateStatus \/ PatchFailed \/ Conflict \/ UpdatePoolStatus

-----------------------------------------------------------------------------
(***************************************************************************)
(* Failures.  The API server may refuse a write, or apply it and the       *)
(* answer be lost; either way Reconcile returns the error, except for the  *)
(* pool status.  A restarted operator lists everything before its worker   *)
(* starts.                                                                 *)
(***************************************************************************)
WriteRefusedIgnored ==      \* mutant: the failed Update is only logged
  /\ pc \in {"spec", "status", "fail", "pool"}
  /\ CASE pc = "pool"                     -> Finish
       [] pc = "spec" /\ run.statusChanged -> Goto("status", run) /\ UNCHANGED current
       [] OTHER                           -> Requeue
  /\ UNCHANGED <<det, dev, pools, watch>>

WriteRefusedLogged ==       \* mutant: no error is returned, as for the pool's status
  /\ pc \in {"spec", "status", "fail", "pool"}
  /\ Finish
  /\ UNCHANGED <<det, dev, pools, watch>>

WriteRefused ==
  /\ pc \in {"spec", "status", "fail", "pool"}
  /\ IF pc = "pool" THEN Finish ELSE Requeue
  /\ UNCHANGED <<det, dev, pools, watch>>

AnswerLost ==
  /\ run.name \in current
  /\ \/ pc = "spec" /\ PutDetector(run.name, SpecWritten)
     \/ pc \in {"status", "fail"} /\ PutDetector(run.name, StatusWritten)
  /\ Requeue

RestartOperator ==
  /\ cache' = [det |-> det, dev |-> dev, pool |-> pools]
  /\ watch' = NoEvents
  /\ queue' = {d \in Detector : det[d] # Absent}
  /\ pc' = "idle" /\ run' = NoRun /\ current' = {}
  /\ UNCHANGED <<det, dev, pools>>

=============================================================================
